---- MODULE Spec2Model ----
(***************************************************************************)
(* A model of the core of zgv (zed-git-view): the TTL cache that wraps the *)
(* git Service (internal/git/cache.go), the process runner with its global *)
(* semaphore (internal/git/cli.go), the debouncing filesystem watcher      *)
(* (internal/watcher/watcher.go) and the porcelain status parser           *)
(* (internal/git/parser.go).                                               *)
(*                                                                         *)
(* The subsystems share no state, so each has its own specification:       *)
(*   SpecSeq    one caller using a CachedService, one whole call per step  *)
(*   SpecConc   several callers of one CachedService, interleaved at the   *)
(*              mutex operations and at the calls of the inner Service     *)
(*   SpecSem    concurrent runGit calls on the global semaphore            *)
(*   SpecWatch  the dispatch goroutine of Watch, its timer, its consumer   *)
(*              and stop                                                   *)
(*   SpecParse  ParseStatusOutput applied to bounded porcelain outputs     *)
(***************************************************************************)
EXTENDS Integers, Sequences, FiniteSets, TLC

VARIABLES
    cache,      \* CachedService.cache: key -> [val, err, expiry]
    now,        \* the wall clock read by time.Now(), in seconds
    repo,       \* the repository state the inner Service reads: a version number
    hist,       \* SpecSeq: the calls made so far, in order, with what each returned
    pc,         \* SpecConc: where each caller is in its call of the CachedService
    mu,         \* SpecConc: CachedService.mu: 0 when free, else the caller holding it
    loc,        \* SpecConc: each caller's local variables: key, v, err
    mark,       \* SpecConc (history): ages of the values in hand and in the cache
    wclock,     \* SpecConc (history): writes begun; latest begun write that has returned
    gitSemaphore,   \* SpecSem: the number of tokens in the channel gitSemaphore
    rpc,        \* SpecSem: where each caller is in runGit
    rcls,       \* SpecSem: the timeout class of each caller's call in progress
    rres,       \* SpecSem: how each caller's last runGit call ended
    wEvents,    \* SpecWatch: the events waiting on w.Events, each a path
    wErrors,    \* SpecWatch: the number of errors waiting on w.Errors
    timer,      \* SpecWatch: the loop's timer: "nil", "armed", or "fired" (t.C ready)
    ch,         \* SpecWatch: the number of Events buffered in the channel ch
    wst,        \* SpecWatch: done closed, watcher closed, dispatch loop running
    win,        \* SpecWatch (history): the current debounce window
    statusOut,  \* SpecParse: the output of git status --porcelain=v1 -z, a byte string
    statusRecs, \* SpecParse (history): the records git wrote to statusOut
    result,     \* SpecParse: the StatusResult of the last parse, NoResult before it
    batch,      \* SpecShort: a tool output with short records: parser, records, bytes
    batchRes,   \* SpecShort: what the parser made of it, and of it without the short ones
    found,      \* SpecCap (history): the map the last set found, and the key it stored
    left,       \* SpecDeadline: seconds left until the deadline of each caller's ctx
    age,        \* SpecDeadline (history): seconds since each caller entered runGit
    started,    \* SpecDeadline (history): the number of runGit calls made so far
    call,       \* SpecCli: the Service call in progress and its runGit invocations
    ret,        \* SpecCli: what the last Service call returned to its caller
    layout,     \* SpecTargets: what is at each path when Watch starts (dir, file, none)
    watched,    \* SpecTargets: the paths Watch has registered with the OS watcher
    input,      \* SpecRefs, SpecGraph: what a parser is given
    output      \* SpecRefs, SpecGraph: what the parser returned

cacheVars == <<cache, now, repo>>
seqVars == <<hist>>
concVars == <<pc, mu, loc, mark, wclock>>
semVars == <<gitSemaphore, rpc, rcls, rres>>
watchVars == <<wEvents, wErrors, timer, ch, wst, win>>
parseVars == <<statusOut, statusRecs, result>>
shortVars == <<batch, batchRes>>
capVars == <<found>>
timeVars == <<left, age, started>>
cliVars == <<call, ret>>
fsVars == <<layout, watched>>
fnVars == <<input, output>>
vars == <<cache, now, repo, hist, pc, mu, loc, mark, wclock,
          gitSemaphore, rpc, rcls, rres,
          wEvents, wErrors, timer, ch, wst, win,
          statusOut, statusRecs, result, batch, batchRes, found,
          left, age, started, call, ret, layout, watched,
          input, output>>

\* What the steps of one subsystem leave alone.
outsideSeq == <<concVars, semVars, watchVars, parseVars, shortVars, capVars, timeVars, cliVars, fsVars, fnVars>>
outsideConc == <<semVars, watchVars, parseVars, shortVars, capVars, timeVars, cliVars, fsVars, fnVars>>
outsideSem == <<cacheVars, hist, concVars, watchVars, parseVars, shortVars, capVars, timeVars, cliVars, fsVars, fnVars>>
outsideWatch == <<cacheVars, hist, concVars, semVars, parseVars, shortVars, capVars, timeVars, cliVars, fsVars, fnVars>>
outsideParse == <<cacheVars, hist, concVars, semVars, watchVars, shortVars, capVars, timeVars, cliVars, fsVars, fnVars>>
outsideShort == <<cacheVars, hist, concVars, semVars, watchVars, parseVars, capVars, timeVars, cliVars, fsVars, fnVars>>
outsideCap == <<repo, hist, concVars, semVars, watchVars, parseVars, shortVars,
                timeVars, cliVars, fsVars, fnVars>>
outsideDeadline == <<cacheVars, hist, concVars, watchVars, parseVars, shortVars,
                     capVars, cliVars, fsVars, fnVars>>
outsideCli == <<cacheVars, hist, concVars, semVars, watchVars, parseVars, shortVars,
                capVars, timeVars, fsVars, fnVars>>

(***************************************************************************)
(* Bounds of the model.                                                    *)
(***************************************************************************)
NumKeys == 2        \* how many of the 12 cached operations the callers use
MaxTime == 3        \* the clock stops here
MaxRepo == 2        \* the repository changes at most MaxRepo - 1 times
MaxCalls == 3       \* SpecSeq: calls in one history
NumProcs == 2       \* SpecConc: concurrent callers of one CachedService
MaxWrites == 1      \* SpecConc: writes begun in one behaviour
NumCallers == 5     \* SpecSem: concurrent callers of runGit
NumInstances == 2   \* SpecSem: CLIService values the callers go through
MaxQueue == 2       \* SpecWatch: events waiting on w.Events
MaxFsEvents == 5    \* SpecWatch: filesystem events in one behaviour
MaxFsErrors == 1    \* SpecWatch: watcher errors in one behaviour
MaxRecords == 2     \* SpecParse: records in one status output
MaxBatch == 3       \* SpecShort: records in one tool output
CapSlack == 2       \* SpecCap: the maps a set finds hold from cap - CapSlack to cap entries
MaxRunGit == 5      \* SpecDeadline: runGit calls in one behaviour
MaxSets == 1        \* SpecCap: calls of set in one behaviour

(***************************************************************************)
(* Program constants.                                                      *)
(***************************************************************************)
TTL == 2                \* cmd/main.go: NewCachedService(cliSvc, 2*time.Second)
maxCacheEntries == 64   \* cache.go
semCapacity == 4        \* cli.go: make(chan struct{}, 4)
cmdTimeoutRead == 10    \* cli.go, in seconds
cmdTimeoutWrite == 30   \* cli.go, in seconds
cmdTimeoutNetwork == 120    \* cli.go, in seconds
maxDiffBytes == 524288  \* cli.go: const maxDiffBytes = 512 * 1024
TimeUnit == 10          \* the clock of SpecDeadline advances by this many seconds

NoErr == "nil"
Errs == {"e1", "e2"}    \* two distinguishable non-nil errors of the inner Service

\* The keys of the twelve cached read operations, in the order of cache.go.
AllKeys ==
    << "head", "status", "ismerging", "isclean", "isrebasing", "aheadbehind",
       "upstream", "branches", "stashlist", "remotes", "worktrees", "conflicts" >>

Keys == {AllKeys[i] : i \in 1..NumKeys}

\* IsMerging, IsRebasing and Upstream return no error.
HasErr(k) == k \notin {"ismerging", "isrebasing", "upstream"}

\* What a read operation returns with a non-nil error: the zero value of its type.
ZeroVal(k) == <<k, 0>>

EmptyCache == [k \in {} |-> 0]

\* Invalidate that removes the successes and keeps the cached errors.
Invalidate_keepsErrors(c) == [k \in {j \in DOMAIN c : c[j].err # NoErr} |-> c[k]]

\* CachedService.Invalidate: the map is replaced by an empty one.
Invalidate(c) == EmptyCache

\* get without the expiry test: an entry is served as long as it is in the map.
get_neverExpires(c, key, t) ==
    IF key \notin DOMAIN c
    THEN [val |-> ZeroVal(key), ok |-> FALSE, err |-> NoErr]
    ELSE [val |-> c[key].val, ok |-> TRUE, err |-> c[key].err]

\* get with the expiry test off by one: an entry is dropped at its expiry
\* instant instead of after it.
get_expiresEarly(c, key, t) ==
    IF key \notin DOMAIN c \/ t >= c[key].expiry
    THEN [val |-> ZeroVal(key), ok |-> FALSE, err |-> NoErr]
    ELSE [val |-> c[key].val, ok |-> TRUE, err |-> c[key].err]

\* CachedService.get at time t: a miss when the key is absent or
\* time.Now().After(e.expiry).
get(c, key, t) ==
    IF key \notin DOMAIN c \/ t > c[key].expiry
    THEN [val |-> ZeroVal(key), ok |-> FALSE, err |-> NoErr]
    ELSE [val |-> c[key].val, ok |-> TRUE, err |-> c[key].err]

\* set that stores successes only.
set_skipsErrors(c, key, val, err, t) ==
    IF err # NoErr THEN c
    ELSE [k \in DOMAIN c \cup {key} |->
            IF k = key THEN [val |-> val, err |-> err, expiry |-> t + TTL]
            ELSE c[k]]

\* set that flushes the whole map at the cap without deleting the expired
\* entries first.
set_flushAtCap(c, key, val, err, t) ==
    LET kept == IF Cardinality(DOMAIN c) >= maxCacheEntries THEN {} ELSE DOMAIN c
    IN  [k \in kept \cup {key} |->
            IF k = key THEN [val |-> val, err |-> err, expiry |-> t + TTL]
            ELSE c[k]]

\* CachedService.set at time t: at the cap the expired entries are deleted, then
\* the whole map if it is still at the cap; then the entry is stored.
set(c, key, val, err, t) ==
    LET live == IF Cardinality(DOMAIN c) >= maxCacheEntries
                THEN {k \in DOMAIN c : ~(t > c[k].expiry)}
                ELSE DOMAIN c
        kept == IF Cardinality(live) >= maxCacheEntries THEN {} ELSE live
    IN  [k \in kept \cup {key} |->
            IF k = key THEN [val |-> val, err |-> err, expiry |-> t + TTL]
            ELSE c[k]]

\* A helper that invalidates whatever the inner call returned.
invalidateAndReturn_always(c, err) == Invalidate(c)

\* CachedService.invalidateAndReturn: the cache after a write whose inner call
\* returned err.
invalidateAndReturn(c, err) == IF err = NoErr THEN Invalidate(c) ELSE c

\* The results the inner Service may give for the read behind key k: the value
\* of the repository as it is now, or (for the operations that can fail) an error
\* with the zero value.
InnerRead(k) ==
    {[val |-> <<k, repo>>, err |-> NoErr]}
    \cup (IF HasErr(k) THEN {[val |-> ZeroVal(k), err |-> e] : e \in Errs} ELSE {})

CacheInit ==
    /\ cache = EmptyCache
    /\ now = 0
    /\ repo = 1

(***************************************************************************)
(* SpecSeq: one caller, one whole call of the CachedService per step.      *)
(***************************************************************************)
Call(op, key, t0, t, val, err, inner) ==
    [op |-> op, key |-> key, t0 |-> t0, t |-> t, val |-> val, err |-> err,
     inner |-> inner]

\* A cached read (Head, Status, ...): a hit returns the entry; a miss calls the
\* inner Service, which takes d seconds, stores what it returned and returns it.
SeqRead(k) ==
    /\ Len(hist) < MaxCalls
    /\ LET g == get(cache, k, now) IN
       IF g.ok
       THEN /\ hist' = Append(hist, Call("read", k, now, now, g.val, g.err, FALSE))
            /\ UNCHANGED cacheVars
       ELSE \E r \in InnerRead(k), d \in 0..1 :
            /\ now + d <= MaxTime
            /\ now' = now + d
            /\ cache' = set(cache, k, r.val, r.err, now')
            /\ hist' = Append(hist, Call("read", k, now, now', r.val, r.err, TRUE))
            /\ UNCHANGED repo
    /\ UNCHANGED outsideSeq

\* A write (Stage, Commit, MergeBranch, ...) whose inner call succeeds: the
\* repository changes and the cache is invalidated before the write returns.
SeqWriteOk ==
    /\ Len(hist) < MaxCalls
    /\ repo < MaxRepo
    /\ repo' = repo + 1
    /\ cache' = invalidateAndReturn(cache, NoErr)
    /\ hist' = Append(hist, Call("write", "-", now, now, <<"-", 0>>, NoErr, TRUE))
    /\ UNCHANGED now
    /\ UNCHANGED outsideSeq

\* A write whose inner call fails with e; git may have changed the repository
\* all the same (a merge that stops on conflicts exits non-zero).
SeqWriteErr ==
    /\ Len(hist) < MaxCalls
    /\ \E e \in Errs, dr \in 0..1 :
        /\ repo + dr <= MaxRepo
        /\ repo' = repo + dr
        /\ cache' = invalidateAndReturn(cache, e)
        /\ hist' = Append(hist, Call("write", "-", now, now, <<"-", 0>>, e, TRUE))
    /\ UNCHANGED now
    /\ UNCHANGED outsideSeq

\* Time passes.
Tick ==
    /\ now < MaxTime
    /\ now' = now + 1
    /\ UNCHANGED <<cache, repo>>

\* Another process (an editor, a git command in a shell) changes the repository.
ExternalChange ==
    /\ repo < MaxRepo
    /\ repo' = repo + 1
    /\ UNCHANGED <<cache, now>>

\* The state of the callers of SpecConc before any call.
Procs == 1..NumProcs

NoLoc == [key |-> "-", val |-> <<"-", 0>>, err |-> NoErr]

ConcInit ==
    /\ pc = [p \in Procs |-> "idle"]
    /\ mu = 0
    /\ loc = [p \in Procs |-> NoLoc]
    /\ mark = [hand |-> [p \in Procs |-> 0], need |-> [p \in Procs |-> 0],
                wb |-> [p \in Procs |-> 0], born |-> [k \in Keys |-> 0]]
    /\ wclock = [begun |-> 0, returned |-> 0]

\* SpecSem before any call: the semaphore channel is empty.
Callers == 1..NumCallers

SemInit ==
    /\ gitSemaphore = 0
    /\ rpc = [p \in Callers |-> "idle"]
    /\ rcls = [p \in Callers |-> "-"]
    /\ rres = [p \in Callers |-> "none"]

\* SpecWatch when Watch returns: the dispatch goroutine is at its select, no
\* timer, nothing in ch.
NoWindow == [k |-> 0, sent |-> 0, late |-> FALSE, full |-> FALSE, d |-> 0]

WatchInit ==
    /\ wEvents = <<>>
    /\ wErrors = 0
    /\ timer = "nil"
    /\ ch = 0
    /\ wst = [done |-> FALSE, closed |-> FALSE, loop |-> "run", events |-> 0,
              errors |-> 0]
    /\ win = NoWindow

\* "No parse yet": the parser has not run on statusOut.
NoResult == [parsed |-> FALSE, Staged |-> <<>>, Unstaged |-> <<>>,
             Untracked |-> <<>>, Conflicts |-> <<>>]

ParseInit ==
    /\ statusOut = <<>>
    /\ statusRecs = <<>>
    /\ result = NoResult

\* No tool output with short records, nothing parsed.
NoBatch == [parser |-> "none", recs |-> <<>>, out |-> <<>>]
NoBatchRes == [done |-> FALSE, got |-> <<>>, want |-> <<>>]

ShortInit ==
    /\ batch = NoBatch
    /\ batchRes = NoBatchRes

\* No runGit call yet.
DeadlineInit ==
    /\ left = [p \in Callers |-> 0]
    /\ age = [p \in Callers |-> 0]
    /\ started = 0

\* No Service call yet.
NoCall == [op |-> "-", rs |-> <<>>]

NoRet == [done |-> FALSE, op |-> "-", val |-> <<>>, err |-> <<>>, rs |-> <<>>]

CliInit == call = NoCall /\ ret = NoRet

\* Watch has not been called; the layout is of no account before it is.
NoLayout == [p \in {} |-> "none"]

NotWatched == [done |-> FALSE, paths |-> {}]

FsInit == layout = NoLayout /\ watched = NotWatched

\* No parser input yet.
NoInput == [fn |-> "-", tokens |-> <<>>, raw |-> <<>>]

NoOutput == [done |-> FALSE, val |-> <<>>]

FnInit == input = NoInput /\ output = NoOutput

\* No set yet.
NoFound == [sets |-> 0, map |-> EmptyCache, key |-> 0, at |-> 0]

CapInit == found = NoFound

\* The state after construction of everything but the cache and the parsers'
\* inputs.
NoFsInit ==
    /\ hist = <<>>
    /\ ConcInit
    /\ SemInit
    /\ WatchInit
    /\ CapInit
    /\ DeadlineInit
    /\ CliInit

RestInit == NoFsInit /\ FsInit /\ FnInit

\* The state after construction of everything but the parsers' inputs.
BaseInit == CacheInit /\ RestInit

\* The state after construction of everything but the status parser's input.
OtherInit == BaseInit /\ ShortInit

\* The state after construction, common to SpecSeq, SpecConc, SpecSem, SpecWatch.
Init == OtherInit /\ ParseInit

SeqInit == Init

SeqNext ==
    \/ \E k \in Keys : SeqRead(k)
    \/ SeqWriteOk
    \/ SeqWriteErr
    \/ Tick /\ UNCHANGED <<hist, outsideSeq>>
    \/ ExternalChange /\ UNCHANGED <<hist, outsideSeq>>

SpecSeq == SeqInit /\ [][SeqNext]_vars

(***************************************************************************)
(* Claims about sequential use of the cache, stated over the history.      *)
(***************************************************************************)
Idx == 1..Len(hist)

IsRead(i, k) == hist[i].op = "read" /\ hist[i].key = k
IsWrite(i) == hist[i].op = "write"
IsOkWrite(i) == IsWrite(i) /\ hist[i].err = NoErr

\* The reads of key k before call j that called the inner Service.
MissesBefore(j, k) == {i \in 1..(j - 1) : IsRead(i, k) /\ hist[i].inner}

\* The call that stored the entry a read j of key k may find: the last miss of k
\* before j.
Storer(j, k) == CHOOSE i \in MissesBefore(j, k) : \A m \in MissesBefore(j, k) : m <= i

\* C3: cache coherence.  When a read of key k has called the inner Service and
\* stored its result at time t, a later read of k that completes by t + TTL, with
\* no write between the two, returns the identical value and error, and the inner
\* Service has been called for k exactly once from the first read to the second,
\* whatever other cached operations ran in between.
C3_CacheCoherence ==
    \A k \in Keys : \A i, j \in Idx :
        ( /\ i < j /\ IsRead(i, k) /\ IsRead(j, k) /\ hist[i].inner
          /\ hist[j].t <= hist[i].t + TTL
          /\ \A m \in (i + 1)..(j - 1) : ~IsWrite(m) )
        => /\ hist[j].val = hist[i].val
           /\ hist[j].err = hist[i].err
           /\ Cardinality({m \in i..j : IsRead(m, k) /\ hist[m].inner}) = 1

\* Head, Status, Head inside one TTL window while the repository changed under
\* the cache: the second Head is served from the cache.
C3_Witness ==
    \E i, m, j \in Idx :
        /\ i < m /\ m < j
        /\ IsRead(i, "head") /\ hist[i].inner /\ hist[i].err = NoErr
        /\ IsRead(m, "status")
        /\ IsRead(j, "head") /\ ~hist[j].inner
        /\ hist[j].t = hist[i].t + TTL
        /\ hist[j].val = hist[i].val /\ hist[j].val # <<"head", repo>>

\* C4 as claimed: after any write has returned, whatever its outcome, the next
\* read of a key that was read before the write calls the inner Service again.
C4_AnyWriteThenReadIsFresh ==
    \A k \in Keys : \A i, w, j \in Idx :
        ( /\ i < w /\ w < j
          /\ IsRead(i, k) /\ IsWrite(w) /\ IsRead(j, k)
          /\ \A m \in (w + 1)..(j - 1) : ~IsRead(m, k) )
        => hist[j].inner

\* C8: error caching.  For a read j of an operation whose last inner call failed
\* and stored the error at time t: when j starts by t + TTL and no successful
\* write lies in between, j returns that same error (and value) without calling
\* the inner Service; when j starts after t + TTL, or a successful write lies in
\* between, j calls the inner Service again.
C8_ErrorCached ==
    \A k \in Keys : \A j \in Idx :
        (IsRead(j, k) /\ MissesBefore(j, k) # {} /\ hist[Storer(j, k)].err # NoErr)
        => LET i == Storer(j, k)
               live == /\ hist[j].t0 <= hist[i].t + TTL
                       /\ \A m \in (i + 1)..(j - 1) : ~IsOkWrite(m)
           IN  /\ live => /\ ~hist[j].inner
                          /\ hist[j].err = hist[i].err
                          /\ hist[j].val = hist[i].val
               /\ ~live => hist[j].inner

\* A failed read, the same error served from the cache, and after the TTL a
\* fresh call of the inner Service.
C8_Witness ==
    \E k \in Keys : \E i, j, m \in Idx :
        /\ i < j /\ j < m
        /\ IsRead(i, k) /\ hist[i].inner /\ hist[i].err \in Errs
        /\ IsRead(j, k) /\ ~hist[j].inner /\ hist[j].err = hist[i].err
        /\ IsRead(m, k) /\ hist[m].inner /\ hist[m].t0 > hist[i].t + TTL

(***************************************************************************)
(* SpecConc: several callers of one CachedService.  A call is interleaved  *)
(* with the others where the code can be: at c.mu.Lock(), and while the    *)
(* call of the inner Service is in progress.                               *)
(*                                                                         *)
(* History variables date the values: wclock.begun counts the writes begun *)
(* so far, and a value the inner Service produces is as old as that count  *)
(* (mark.hand), so a value of age a was produced before the b-th write     *)
(* began exactly when a < b.  wclock.returned is the latest-begun write    *)
(* that has returned successfully; a read notes it when it starts          *)
(* (mark.need).                                                            *)
(***************************************************************************)
Max(a, b) == IF a >= b THEN a ELSE b

\* The errors the inner Service gives in SpecConc.
ConcErrs == {"e1"}

\* A caller enters a cached read (Head, Status, ...): c.get(key) is next.
BeginRead(p, k) ==
    /\ pc[p] = "idle"
    /\ pc' = [pc EXCEPT ![p] = "getLock"]
    /\ loc' = [loc EXCEPT ![p] = [NoLoc EXCEPT !.key = k]]
    /\ mark' = [mark EXCEPT !.need[p] = wclock.returned]
    /\ UNCHANGED <<cacheVars, hist, mu, wclock>>
    /\ UNCHANGED outsideConc

\* get: c.mu.Lock().
GetLock(p) ==
    /\ pc[p] = "getLock"
    /\ mu = 0
    /\ mu' = p
    /\ pc' = [pc EXCEPT ![p] = "getBody"]
    /\ UNCHANGED <<cacheVars, hist, loc, mark, wclock>>
    /\ UNCHANGED outsideConc

\* get with the deferred unlock forgotten on the miss path.
GetBody_keepsLockOnMiss(p) ==
    /\ pc[p] = "getBody"
    /\ LET g == get(cache, loc[p].key, now) IN
       IF g.ok
       THEN /\ pc' = [pc EXCEPT ![p] = "idle"]
            /\ mu' = 0
            /\ loc' = [loc EXCEPT ![p] = NoLoc]
            /\ mark' = [mark EXCEPT !.need[p] = 0]
       ELSE /\ pc' = [pc EXCEPT ![p] = "inner"]
            /\ UNCHANGED <<loc, mark, mu>>
    /\ UNCHANGED <<cacheVars, hist, wclock>>
    /\ UNCHANGED outsideConc

\* get: the lookup and the deferred c.mu.Unlock().  A hit returns the entry to
\* the caller of the read; on a miss the read goes on to call the inner Service.
GetBody(p) ==
    /\ pc[p] = "getBody"
    /\ mu' = 0
    /\ LET g == get(cache, loc[p].key, now) IN
       IF g.ok
       THEN /\ pc' = [pc EXCEPT ![p] = "idle"]
            /\ loc' = [loc EXCEPT ![p] = NoLoc]
            /\ mark' = [mark EXCEPT !.need[p] = 0]
       ELSE /\ pc' = [pc EXCEPT ![p] = "inner"]
            /\ UNCHANGED <<loc, mark>>
    /\ UNCHANGED <<cacheVars, hist, wclock>>
    /\ UNCHANGED outsideConc

\* c.inner.Head() (Status(), ...) returns what the repository holds, or an error.
InnerReadReturn(p) ==
    /\ pc[p] = "inner"
    /\ \E r \in InnerRead(loc[p].key) :
        /\ r.err \in {NoErr} \cup ConcErrs
        /\ loc' = [loc EXCEPT ![p].val = r.val, ![p].err = r.err]
    /\ mark' = [mark EXCEPT !.hand[p] = wclock.begun]
    /\ pc' = [pc EXCEPT ![p] = "setLock"]
    /\ UNCHANGED <<cacheVars, hist, mu, wclock>>
    /\ UNCHANGED outsideConc

\* set: c.mu.Lock().
SetLock(p) ==
    /\ pc[p] = "setLock"
    /\ mu = 0
    /\ mu' = p
    /\ pc' = [pc EXCEPT ![p] = "setBody"]
    /\ UNCHANGED <<cacheVars, hist, loc, mark, wclock>>
    /\ UNCHANGED outsideConc

\* set: the entry is stored, c.mu.Unlock(), and the read returns v, err.
SetBody(p) ==
    /\ pc[p] = "setBody"
    /\ cache' = set(cache, loc[p].key, loc[p].val, loc[p].err, now)
    /\ mu' = 0
    /\ pc' = [pc EXCEPT ![p] = "idle"]
    /\ loc' = [loc EXCEPT ![p] = NoLoc]
    /\ mark' = [mark EXCEPT !.born[loc[p].key] = mark.hand[p],
                            !.hand[p] = 0, !.need[p] = 0]
    /\ UNCHANGED <<now, repo, hist, wclock>>
    /\ UNCHANGED outsideConc

\* A caller enters a write (Stage, Commit, ...): the inner call begins.
BeginWrite(p) ==
    /\ pc[p] = "idle"
    /\ wclock.begun < MaxWrites
    /\ wclock' = [wclock EXCEPT !.begun = @ + 1]
    /\ mark' = [mark EXCEPT !.wb[p] = wclock.begun + 1]
    /\ pc' = [pc EXCEPT ![p] = "innerWrite"]
    /\ UNCHANGED <<cacheVars, hist, mu, loc>>
    /\ UNCHANGED outsideConc

\* The inner write returns nil: the repository has changed, Invalidate is next.
InnerWriteOk(p) ==
    /\ pc[p] = "innerWrite"
    /\ repo < MaxRepo
    /\ repo' = repo + 1
    /\ pc' = [pc EXCEPT ![p] = "invLock"]
    /\ UNCHANGED <<cache, now, hist, mu, loc, mark, wclock>>
    /\ UNCHANGED outsideConc

\* The inner write returns an error: invalidateAndReturn hands it to the caller
\* without touching the cache.
InnerWriteErr(p) ==
    /\ pc[p] = "innerWrite"
    /\ \E e \in ConcErrs, dr \in 0..1 :
        /\ repo + dr <= MaxRepo
        /\ repo' = repo + dr
        /\ cache' = invalidateAndReturn(cache, e)
    /\ pc' = [pc EXCEPT ![p] = "idle"]
    /\ mark' = [mark EXCEPT !.wb[p] = 0]
    /\ UNCHANGED <<now, hist, mu, loc, wclock>>
    /\ UNCHANGED outsideConc

\* Invalidate: c.mu.Lock().
InvLock(p) ==
    /\ pc[p] = "invLock"
    /\ mu = 0
    /\ mu' = p
    /\ pc' = [pc EXCEPT ![p] = "invBody"]
    /\ UNCHANGED <<cacheVars, hist, loc, mark, wclock>>
    /\ UNCHANGED outsideConc

\* Invalidate: the map is replaced, c.mu.Unlock(), and the write returns nil.
InvBody(p) ==
    /\ pc[p] = "invBody"
    /\ cache' = invalidateAndReturn(cache, NoErr)
    /\ mu' = 0
    /\ pc' = [pc EXCEPT ![p] = "idle"]
    /\ wclock' = [wclock EXCEPT !.returned = Max(@, mark.wb[p])]
    /\ mark' = [mark EXCEPT !.wb[p] = 0]
    /\ UNCHANGED <<now, repo, hist, loc>>
    /\ UNCHANGED outsideConc

ConcNext ==
    \/ \E p \in Procs, k \in Keys : BeginRead(p, k)
    \/ \E p \in Procs : GetLock(p)
    \/ \E p \in Procs : GetBody(p)
    \/ \E p \in Procs : InnerReadReturn(p)
    \/ \E p \in Procs : SetLock(p)
    \/ \E p \in Procs : SetBody(p)
    \/ \E p \in Procs : BeginWrite(p)
    \/ \E p \in Procs : InnerWriteOk(p)
    \/ \E p \in Procs : InnerWriteErr(p)
    \/ \E p \in Procs : InvLock(p)
    \/ \E p \in Procs : InvBody(p)
    \/ Tick /\ UNCHANGED <<hist, concVars, outsideConc>>
    \/ ExternalChange /\ UNCHANGED <<hist, concVars, outsideConc>>

SpecConc == Init /\ [][ConcNext]_vars

\* C1 as claimed: a cached read that started after a successful write had
\* returned never returns a value the inner Service produced before that write
\* began.
C1_Step ==
    \A p \in Procs :
        /\ (pc[p] = "getBody" /\ pc'[p] = "idle")
              => mark.born[loc[p].key] >= mark.need[p]
        /\ (pc[p] = "setBody" /\ pc'[p] = "idle")
              => mark.hand[p] >= mark.need[p]

C1_ReadAfterWriteIsFresh == [][C1_Step]_vars

\* C9: the mutex is held only inside the bodies of get, set and Invalidate, never
\* by a caller whose call of the inner Service is in progress (or by one that is
\* outside every call); and a lookup that misses always goes on to its own call
\* of the inner Service, whatever the other callers are doing.
C9_InvMutex ==
    /\ mu \in Procs => pc[mu] \in {"getBody", "setBody", "invBody"}
    /\ \A p \in Procs : pc[p] \in {"inner", "innerWrite"} => mu # p

C9_MissCallsInner ==
    \A p \in Procs :
        (pc[p] = "getBody" /\ ~get(cache, loc[p].key, now).ok /\ pc'[p] # "getBody")
        => pc'[p] = "inner"

C9_MutexNotHeldAcrossInner == [](C9_InvMutex) /\ [][C9_MissCallsInner]_vars

\* Two callers have missed the same key and both are inside the inner Service,
\* with the mutex free.
C9_Witness ==
    \E p, q \in Procs :
        /\ p # q
        /\ pc[p] = "inner" /\ pc[q] = "inner"
        /\ loc[p].key = loc[q].key
        /\ mu = 0

(***************************************************************************)
(* SpecSem: concurrent calls of runGit.  gitSemaphore is one package-level *)
(* channel, whichever CLIService (or NewCLIService) the call comes from.   *)
(***************************************************************************)
Classes == {"read", "write", "network"}

\* The CLIService each caller goes through.
InstOf(p) == ((p - 1) % NumInstances) + 1

\* A send on the semaphore channel that also goes through when the buffer is full.
CanAcquire_offByOne(s) == s <= semCapacity

\* acquireGitSemaphore: the send on the buffered channel can proceed.
CanAcquire(s) == s < semCapacity

\* A release that runs on the success path only.
SemAfterReturn_onSuccessOnly(s, outcome) == IF outcome = "ok" THEN s - 1 ELSE s

\* runGit's deferred releaseGitSemaphore: one token is received, whatever cmd.Run
\* returned.
SemAfterReturn(s, outcome) == s - 1

\* runGit is entered: context.WithTimeout(timeout) of the caller's class starts.
RunGit(p, cls) ==
    /\ rpc[p] = "idle"
    /\ rpc' = [rpc EXCEPT ![p] = "acquire"]
    /\ rcls' = [rcls EXCEPT ![p] = cls]
    /\ rres' = [rres EXCEPT ![p] = "none"]
    /\ UNCHANGED gitSemaphore
    /\ UNCHANGED outsideSem

\* acquireGitSemaphore takes a slot; runGit starts the git process.
Acquire(p) ==
    /\ rpc[p] = "acquire"
    /\ CanAcquire(gitSemaphore)
    /\ gitSemaphore' = gitSemaphore + 1
    /\ rpc' = [rpc EXCEPT ![p] = "running"]
    /\ UNCHANGED <<rcls, rres>>
    /\ UNCHANGED outsideSem

\* acquireGitSemaphore: ctx.Done() wins the select; runGit returns the error
\* with no slot taken.
AcquireTimeout(p) ==
    /\ rpc[p] = "acquire"
    /\ rpc' = [rpc EXCEPT ![p] = "idle"]
    /\ rcls' = [rcls EXCEPT ![p] = "-"]
    /\ rres' = [rres EXCEPT ![p] = "semtimeout"]
    /\ UNCHANGED gitSemaphore
    /\ UNCHANGED outsideSem

\* cmd.Run returns: git exited 0 ("ok"), exited non-zero ("exit") or was killed
\* at the deadline ("deadline"); the deferred release runs and runGit returns.
ProcEnd(p, outcome) ==
    /\ rpc[p] = "running"
    /\ gitSemaphore > 0
    /\ gitSemaphore' = SemAfterReturn(gitSemaphore, outcome)
    /\ rpc' = [rpc EXCEPT ![p] = "idle"]
    /\ rcls' = [rcls EXCEPT ![p] = "-"]
    /\ rres' = [rres EXCEPT ![p] = outcome]
    /\ UNCHANGED outsideSem

SemNext ==
    \/ \E p \in Callers, cls \in Classes : RunGit(p, cls)
    \/ \E p \in Callers : Acquire(p)
    \/ \E p \in Callers : AcquireTimeout(p)
    \/ \E p \in Callers, o \in {"ok", "exit", "deadline"} : ProcEnd(p, o)

SpecSem == Init /\ [][SemNext]_vars

Running == {p \in Callers : rpc[p] = "running"}
Waiting == {p \in Callers : rpc[p] = "acquire"}

\* C2: at every moment at most semCapacity (4) git processes run, for more than
\* 4 concurrent runGit calls of any timeout class from any CLIService.
C2_AtMostFourProcesses == Cardinality(Running) <= semCapacity

\* Four processes run, of all three timeout classes and from both CLIServices,
\* while a fifth call waits for a slot.
C2_Witness ==
    /\ Cardinality(Running) = semCapacity
    /\ Waiting # {}
    /\ {rcls[p] : p \in Running} = Classes
    /\ Cardinality({InstOf(p) : p \in Running}) = NumInstances

\* C5: the slots held are exactly the calls between acquisition and return: each
\* call that acquired releases one slot at its return, however the process
\* ended, and a call whose acquisition timed out releases none; so no slot is
\* held when no call is in flight.
C5_SlotsMatchCallsInFlight == gitSemaphore = Cardinality(Running)

\* Calls have ended in all four ways and every slot is free again.
C5_Witness ==
    /\ \A p \in Callers : rpc[p] = "idle"
    /\ gitSemaphore = 0
    /\ {"ok", "exit", "deadline", "semtimeout"} \subseteq {rres[p] : p \in Callers}

(***************************************************************************)
(* SpecWatch: the dispatch goroutine of Watch (one step per iteration of   *)
(* its select loop), the runtime timer, the OS watcher feeding w.Events    *)
(* and w.Errors, the consumer of ch, and stop.                             *)
(*                                                                         *)
(* win is the history of the current debounce window: k qualifying events  *)
(* handled since the timer was created, sent notifications put on ch for   *)
(* it, late when one of the events was handled after the timer had fired,  *)
(* full when ch still held an Event at the firing, d the delay the timer   *)
(* was last set or reset to.                                               *)
(***************************************************************************)
HasPrefix(str, pre) == Len(str) >= Len(pre) /\ SubSeq(str, 1, Len(pre)) = pre

HasSuffix(str, suf) ==
    Len(str) >= Len(suf) /\ SubSeq(str, Len(str) - Len(suf) + 1, Len(str)) = suf

\* filepath.Base of a clean path: what follows the last separator.
Base(path) ==
    LET seps == {i \in 1..Len(path) : path[i] = "/"}
        last == IF seps = {} THEN 0 ELSE CHOOSE i \in seps : \A j \in seps : j <= i
    IN  SubSeq(path, last + 1, Len(path))

\* A filter that knows lock files only.
shouldIgnore_lockOnly(path) == HasSuffix(Base(path), <<".", "l", "o", "c", "k">>)

\* A filter that also drops everything under refs/.
shouldIgnore_refs(path) ==
    \/ HasSuffix(Base(path), <<".", "l", "o", "c", "k">>)
    \/ HasPrefix(path, <<"r", "e", "f", "s", "/">>)

\* shouldIgnore: lock files, editor swap and backup files, COMMIT_EDITMSG,
\* gc.log and fsmonitor files.
shouldIgnore(path) ==
    LET base == Base(path) IN
    \/ HasSuffix(base, <<".", "l", "o", "c", "k">>)
    \/ HasSuffix(base, <<".", "s", "w", "p">>)
    \/ HasSuffix(base, <<".", "s", "w", "o">>)
    \/ HasSuffix(base, <<"~">>)
    \/ HasPrefix(base, <<".", "#">>)
    \/ base = <<"C", "O", "M", "M", "I", "T", "_", "E", "D", "I", "T", "M", "S", "G">>
    \/ base = <<"g", "c", ".", "l", "o", "g">>
    \/ HasPrefix(base, <<"f", "s", "m", "o", "n", "i", "t", "o", "r">>)

\* The paths the OS watcher reports in this model: HEAD, refs/heads/m, and
\* index.lock, refs/heads/m.lock, .HEAD.swp, .HEAD.swo, config~, .#config,
\* COMMIT_EDITMSG, gc.log, fsmonitor--daemon.ipc.
NoiseNames ==
    { <<"i", "n", "d", "e", "x", ".", "l", "o", "c", "k">>,
      <<"r", "e", "f", "s", "/", "h", "e", "a", "d", "s", "/", "m", ".", "l", "o", "c", "k">>,
      <<".", "H", "E", "A", "D", ".", "s", "w", "p">>,
      <<".", "H", "E", "A", "D", ".", "s", "w", "o">>,
      <<"c", "o", "n", "f", "i", "g", "~">>,
      <<".", "#", "c", "o", "n", "f", "i", "g">>,
      <<"C", "O", "M", "M", "I", "T", "_", "E", "D", "I", "T", "M", "S", "G">>,
      <<"g", "c", ".", "l", "o", "g">>,
      <<"f", "s", "m", "o", "n", "i", "t", "o", "r", "-", "-", "d", "a", "e", "m", "o", "n", ".", "i", "p", "c">> }

EventNames ==
    { <<"H", "E", "A", "D">>,
      <<"r", "e", "f", "s", "/", "h", "e", "a", "d", "s", "/", "m">> } \cup NoiseNames

\* The OS watcher reports a change of a watched path.
FsEvent(name) ==
    /\ ~wst.closed
    /\ wst.events < MaxFsEvents
    /\ Len(wEvents) < MaxQueue
    /\ wEvents' = Append(wEvents, name)
    /\ wst' = [wst EXCEPT !.events = @ + 1]
    /\ UNCHANGED <<wErrors, timer, ch, win, outsideWatch>>

\* The OS watcher reports an error.
FsError ==
    /\ ~wst.closed
    /\ wst.errors < MaxFsErrors
    /\ wErrors = 0
    /\ wErrors' = 1
    /\ wst' = [wst EXCEPT !.errors = @ + 1]
    /\ UNCHANGED <<wEvents, timer, ch, win, outsideWatch>>

\* timer.Reset(d) on a timer that has fired and whose channel was not drained:
\* with the timers of Go 1.23 and later the stale value is discarded and the timer
\* is armed; with the earlier timers the value stays ready in t.C.
AfterReset(t) == IF t = "fired" THEN {"armed", "fired"} ELSE {"armed"}

\* The debounce runApp passes to Watch, 500 ms, in units of 125 ms.
debounce == 4

\* A jitter of up to the whole debounce.
jitterRange_whole == debounce

jitterRange == debounce \div 2

\* rand.Int64N(n): any of 0 .. n-1.
Int64N(n) == 0..(n - 1)

\* case ev, ok := <-w.Events with ok: an ignored event changes nothing; any other
\* creates the timer or resets it to d = debounce + jitter.
LoopEvent ==
    /\ wst.loop = "run"
    /\ wEvents # <<>>
    /\ wEvents' = Tail(wEvents)
    /\ IF shouldIgnore(Head(wEvents))
       THEN UNCHANGED <<timer, win>>
       ELSE \E jitter \in Int64N(jitterRange) :
              LET d == debounce + jitter IN
              /\ timer' \in (IF timer = "nil" THEN {"armed"} ELSE AfterReset(timer))
              /\ win' = IF timer = "nil"
                        THEN [NoWindow EXCEPT !.k = 1, !.d = d]
                        ELSE [win EXCEPT !.k = @ + 1, !.late = @ \/ timer = "fired",
                                         !.d = d]
    /\ UNCHANGED <<wErrors, ch, wst, outsideWatch>>

\* case ev, ok := <-w.Events with !ok (the channel is closed): return, and the
\* deferred close(ch).
LoopEventsClosed ==
    /\ wst.loop = "run"
    /\ wst.closed /\ wEvents = <<>>
    /\ wst' = [wst EXCEPT !.loop = "exited"]
    /\ UNCHANGED <<wEvents, wErrors, timer, ch, win, outsideWatch>>

\* The runtime timer expires: its channel becomes ready.
TimerExpire ==
    /\ timer = "armed"
    /\ timer' = "fired"
    /\ UNCHANGED <<wEvents, wErrors, ch, wst, win, outsideWatch>>

\* The timer case with a plain send, which waits while ch is full.
LoopTimer_blockingSend ==
    /\ wst.loop = "run"
    /\ timer = "fired"
    /\ ch < 1
    /\ timer' = "nil"
    /\ ch' = ch + 1
    /\ win' = [win EXCEPT !.sent = @ + 1]
    /\ UNCHANGED <<wEvents, wErrors, wst, outsideWatch>>

\* The timer case that forgets timer = nil.
LoopTimer_keepsTimer ==
    /\ wst.loop = "run"
    /\ timer = "fired"
    /\ timer' = "fired"
    /\ IF ch < 1
       THEN ch' = ch + 1 /\ win' = [win EXCEPT !.sent = @ + 1]
       ELSE ch' = ch /\ win' = [win EXCEPT !.full = TRUE]
    /\ UNCHANGED <<wEvents, wErrors, wst, outsideWatch>>

\* case <-timerChan(timer): timer = nil, then the non-blocking send on ch: the
\* Event is buffered when ch is empty and dropped when it is full.
LoopTimer ==
    /\ wst.loop = "run"
    /\ timer = "fired"
    /\ timer' = "nil"
    /\ IF ch < 1
       THEN ch' = ch + 1 /\ win' = [win EXCEPT !.sent = @ + 1]
       ELSE ch' = ch /\ win' = [win EXCEPT !.full = TRUE]
    /\ UNCHANGED <<wEvents, wErrors, wst, outsideWatch>>

\* case _, ok := <-w.Errors with ok: the error is dropped and the loop goes on.
LoopError ==
    /\ wst.loop = "run"
    /\ wErrors > 0
    /\ wErrors' = wErrors - 1
    /\ UNCHANGED <<wEvents, timer, ch, wst, win, outsideWatch>>

\* case _, ok := <-w.Errors with !ok: return, and the deferred close(ch).
LoopErrorsClosed ==
    /\ wst.loop = "run"
    /\ wst.closed /\ wErrors = 0
    /\ wst' = [wst EXCEPT !.loop = "exited"]
    /\ UNCHANGED <<wEvents, wErrors, timer, ch, win, outsideWatch>>

\* A done case that does not return: the loop goes back to its select.
LoopDone_continues ==
    /\ wst.loop = "run"
    /\ wst.done
    /\ UNCHANGED vars

\* case <-done: return, and the deferred close(ch).
LoopDone ==
    /\ wst.loop = "run"
    /\ wst.done
    /\ wst' = [wst EXCEPT !.loop = "exited"]
    /\ UNCHANGED <<wEvents, wErrors, timer, ch, win, outsideWatch>>

\* The consumer (for range watchCh in runApp) receives an Event.
Consume ==
    /\ ch > 0
    /\ ch' = ch - 1
    /\ UNCHANGED <<wEvents, wErrors, timer, wst, win, outsideWatch>>

\* stop: close(done).
StopCloseDone ==
    /\ ~wst.done
    /\ wst' = [wst EXCEPT !.done = TRUE]
    /\ UNCHANGED <<wEvents, wErrors, timer, ch, win, outsideWatch>>

\* stop: w.Close() closes w.Events and w.Errors, dropping what they had not
\* delivered; stop returns.
StopCloseWatcher ==
    /\ wst.done /\ ~wst.closed
    /\ wst' = [wst EXCEPT !.closed = TRUE]
    /\ wEvents' = <<>>
    /\ wErrors' = 0
    /\ UNCHANGED <<timer, ch, win, outsideWatch>>

WatchNext ==
    \/ \E name \in EventNames : FsEvent(name)
    \/ FsError
    \/ LoopEvent
    \/ LoopEventsClosed
    \/ TimerExpire
    \/ LoopTimer
    \/ LoopError
    \/ LoopErrorsClosed
    \/ LoopDone
    \/ Consume
    \/ StopCloseDone
    \/ StopCloseWatcher

SpecWatch == Init /\ [][WatchNext]_vars

\* stop has returned.
Stopped == wst.done /\ wst.closed

\* C6: debounce coalescing.  While the timer of a window is pending no
\* notification has been sent for it, whatever the number k of qualifying events
\* handled so far; and once the timer has fired and been handled, the k >= 1
\* events of the window, each handled before the timer fired, have produced
\* exactly one notification, given ch was empty at the firing.
C6_OneNotificationPerWindow ==
    /\ (win.k >= 1 /\ timer # "nil" /\ ~win.late) => win.sent = 0
    /\ (win.k >= 1 /\ timer = "nil" /\ ~win.late /\ ~win.full)
          => (win.sent = 1 /\ ch <= 1)

\* A window of three qualifying events has ended with one notification.
C6_Witness ==
    /\ win.k = 3 /\ ~win.late /\ ~win.full
    /\ timer = "nil"
    /\ win.sent = 1
    /\ ~wst.done

\* C7 as claimed: once stop has returned, no Event is sent to ch.
C7_Step == Stopped => ch' <= ch

C7_NoEventAfterStop == [][C7_Step]_vars

(***************************************************************************)
(* SpecParse: ParseStatusOutput on the outputs of                          *)
(* git status --porcelain=v1 -z.  The output is a sequence of bytes (one-  *)
(* character strings, NUL for the byte 0); a record is XY, a space, the    *)
(* path, NUL, and for a rename or a copy the original path and NUL.        *)
(***************************************************************************)
NUL == "NUL"

\* StatusCode values (types.go).
StatusUnmodified == " "
StatusModified == "M"
StatusTypeChanged == "T"
StatusAdded == "A"
StatusDeleted == "D"
StatusRenamed == "R"
StatusCopied == "C"
StatusUnmerged == "U"
StatusUntracked == "?"

\* The code pairs git writes in this model: any two codes of a tracked path but
\* two blanks, and ?? for an untracked path.
TrackedCodes == {StatusUnmodified, StatusModified, StatusTypeChanged, StatusAdded,
                 StatusDeleted, StatusRenamed, StatusCopied, StatusUnmerged}

StatusPairs ==
    ({<<x, y>> : x \in TrackedCodes, y \in TrackedCodes}
        \ {<<StatusUnmodified, StatusUnmodified>>})
    \cup {<<StatusUntracked, StatusUntracked>>}

\* The path of the i-th record: "a", "aa", ...: one path per record, as git
\* reports each path once.
PathOf(i) == [j \in 1..i |-> "a"]

\* The original path git adds to the i-th record when it is a rename.
OrigPathOf(i) == <<"o", "l", "d">> \o PathOf(i)

IsRename(x, y) ==
    x = StatusRenamed \/ x = StatusCopied \/ y = StatusRenamed \/ y = StatusCopied

\* What git writes for the records recs, record i being the code pair recs[i] on
\* the path PathOf(i).
RECURSIVE Porcelain(_, _)
Porcelain(recs, i) ==
    IF i > Len(recs) THEN <<>>
    ELSE LET x == recs[i][1]
             y == recs[i][2]
         IN  <<x, y, " ">> \o PathOf(i) \o <<NUL>>
               \o (IF IsRename(x, y) THEN OrigPathOf(i) \o <<NUL>> ELSE <<>>)
               \o Porcelain(recs, i + 1)

\* strings.IndexByte, counting from 1; 0 when the byte does not occur.
IndexByte(str, b) ==
    LET at == {i \in 1..Len(str) : str[i] = b}
    IN  IF at = {} THEN 0 ELSE CHOOSE i \in at : \A j \in at : i <= j

\* The classification that misses the same-code conflicts AA and DD.
Classify_unmergedOnly(res, fs) ==
    IF fs.Staging = StatusUntracked /\ fs.Worktree = StatusUntracked
    THEN [res EXCEPT !.Untracked = Append(@, fs)]
    ELSE IF fs.Staging = StatusUnmerged \/ fs.Worktree = StatusUnmerged
    THEN [res EXCEPT !.Conflicts = Append(@, fs)]
    ELSE LET staged == IF fs.Staging # StatusUnmodified /\ fs.Staging # StatusUntracked
                       THEN Append(res.Staged, [fs EXCEPT !.IsStaged = TRUE])
                       ELSE res.Staged
             unstaged == IF fs.Worktree # StatusUnmodified /\ fs.Worktree # StatusUntracked
                         THEN Append(res.Unstaged, fs)
                         ELSE res.Unstaged
         IN  [res EXCEPT !.Staged = staged, !.Unstaged = unstaged]

\* The classification that lists a path as Unstaged only when it is not Staged.
Classify_stagedElseUnstaged(res, fs) ==
    IF fs.Staging = StatusUntracked /\ fs.Worktree = StatusUntracked
    THEN [res EXCEPT !.Untracked = Append(@, fs)]
    ELSE IF \/ fs.Staging = StatusUnmerged
            \/ fs.Worktree = StatusUnmerged
            \/ (fs.Staging = StatusAdded /\ fs.Worktree = StatusAdded)
            \/ (fs.Staging = StatusDeleted /\ fs.Worktree = StatusDeleted)
    THEN [res EXCEPT !.Conflicts = Append(@, fs)]
    ELSE IF fs.Staging # StatusUnmodified /\ fs.Staging # StatusUntracked
    THEN [res EXCEPT !.Staged = Append(@, [fs EXCEPT !.IsStaged = TRUE])]
    ELSE IF fs.Worktree # StatusUnmodified /\ fs.Worktree # StatusUntracked
    THEN [res EXCEPT !.Unstaged = Append(@, fs)]
    ELSE res

\* The classification of one FileStatus (parser.go, lines 163-182).
Classify(res, fs) ==
    IF fs.Staging = StatusUntracked /\ fs.Worktree = StatusUntracked
    THEN [res EXCEPT !.Untracked = Append(@, fs)]
    ELSE IF \/ fs.Staging = StatusUnmerged
            \/ fs.Worktree = StatusUnmerged
            \/ (fs.Staging = StatusAdded /\ fs.Worktree = StatusAdded)
            \/ (fs.Staging = StatusDeleted /\ fs.Worktree = StatusDeleted)
    THEN [res EXCEPT !.Conflicts = Append(@, fs)]
    ELSE LET staged == IF fs.Staging # StatusUnmodified /\ fs.Staging # StatusUntracked
                       THEN Append(res.Staged, [fs EXCEPT !.IsStaged = TRUE])
                       ELSE res.Staged
             unstaged == IF fs.Worktree # StatusUnmodified /\ fs.Worktree # StatusUntracked
                         THEN Append(res.Unstaged, fs)
                         ELSE res.Unstaged
         IN  [res EXCEPT !.Staged = staged, !.Unstaged = unstaged]

\* The test that looks at the staging code only.
HasOrigField_stagingOnly(staging, worktree) ==
    staging = StatusRenamed \/ staging = StatusCopied

\* ParseStatusOutput's test for the extra entry of renames and copies.
HasOrigField(staging, worktree) ==
    \/ staging = StatusRenamed \/ staging = StatusCopied
    \/ worktree = StatusRenamed \/ worktree = StatusCopied

\* The scanning loop of ParseStatusOutput: cut the entry at the next NUL, skip
\* it if shorter than 4 bytes, read the codes and the path, take the next field
\* as OrigPath for a rename or a copy, classify.
RECURSIVE ParseLoop(_, _)
ParseLoop(out, res) ==
    IF Len(out) = 0 THEN res
    ELSE
      LET nul == IndexByte(out, NUL)
          entry == IF nul = 0 THEN out ELSE SubSeq(out, 1, nul - 1)
          rest == IF nul = 0 THEN <<>> ELSE SubSeq(out, nul + 1, Len(out))
      IN
      IF Len(entry) < 4 THEN ParseLoop(rest, res)
      ELSE
        LET staging == entry[1]
            worktree == entry[2]
            path == SubSeq(entry, 4, Len(entry))
            ren == HasOrigField(staging, worktree)
            nul2 == IndexByte(rest, NUL)
            orig == IF ~ren THEN <<>>
                    ELSE IF nul2 = 0 THEN rest ELSE SubSeq(rest, 1, nul2 - 1)
            rest2 == IF ~ren THEN rest
                     ELSE IF nul2 = 0 THEN <<>>
                     ELSE SubSeq(rest, nul2 + 1, Len(rest))
            fs == [Staging |-> staging, Worktree |-> worktree, Path |-> path,
                   OrigPath |-> orig, IsStaged |-> FALSE]
        IN  ParseLoop(rest2, Classify(res, fs))

ParseStatusOutput(out) == ParseLoop(out, [NoResult EXCEPT !.parsed = TRUE])

StatusInputs == UNION {[1..n -> StatusPairs] : n \in 0..MaxRecords}

\* Any output git status can have written for a working tree with up to
\* MaxRecords changed paths, not parsed yet.
GitStatusInit ==
    /\ statusRecs \in StatusInputs
    /\ statusOut = Porcelain(statusRecs, 1)
    /\ result = NoResult

\* CLIService.Status: return ParseStatusOutput(out).
Parse ==
    /\ ~result.parsed
    /\ result' = ParseStatusOutput(statusOut)
    /\ UNCHANGED <<statusOut, statusRecs, outsideParse>>

ParseNext == Parse

\* SpecParse starts with a status output waiting to be parsed.
StatusInit == OtherInit /\ GitStatusInit

SpecParse == StatusInit /\ [][ParseNext]_vars

\* The paths of the entries of one list of the result.
PathsIn(list) == {list[i].Path : i \in 1..Len(list)}

\* The entries of a list with the given codes and path.
Has(list, x, y, path) ==
    \E i \in 1..Len(list) :
        list[i].Staging = x /\ list[i].Worktree = y /\ list[i].Path = path

IsConflictPair(x, y) ==
    \/ x = "U" \/ y = "U"
    \/ (x = "A" /\ y = "A")
    \/ (x = "D" /\ y = "D")

\* C10: status classification.  After a parse, every record of the output whose
\* codes have a U on either side, or are AA or DD, is in Conflicts with its codes
\* and its path, and its path is in none of Staged, Unstaged, Untracked; every
\* record with codes ?? is in Untracked and its path is in no other list.
C10_ConflictAndUntrackedOnly ==
    result.parsed =>
      \A i \in 1..Len(statusRecs) :
        LET x == statusRecs[i][1]
            y == statusRecs[i][2]
            path == PathOf(i)
        IN  /\ IsConflictPair(x, y) =>
                /\ Has(result.Conflicts, x, y, path)
                /\ path \notin PathsIn(result.Staged)
                /\ path \notin PathsIn(result.Unstaged)
                /\ path \notin PathsIn(result.Untracked)
            /\ (x = "?" /\ y = "?") =>
                /\ Has(result.Untracked, x, y, path)
                /\ path \notin PathsIn(result.Staged)
                /\ path \notin PathsIn(result.Unstaged)
                /\ path \notin PathsIn(result.Conflicts)

\* A parsed output with a same-code conflict (AA) after a rename record, the
\* conflict being in Conflicts.
C10_Witness ==
    /\ result.parsed
    /\ Len(statusRecs) = 2
    /\ statusRecs[1] = <<"R", " ">>
    /\ statusRecs[2] = <<"A", "A">>
    /\ Has(result.Conflicts, "A", "A", PathOf(2))
    /\ Len(result.Staged) = 1

\* The entries of a list with the given path and staged flag.
HasFlag(list, path, flag) ==
    \E i \in 1..Len(list) : list[i].Path = path /\ list[i].IsStaged = flag

\* C11: staged and unstaged lists.  After a parse, every record that is neither
\* a conflict nor ?? is in Staged, with IsStaged set, exactly when its index code
\* is neither blank nor ?, and in Unstaged exactly when its worktree code is
\* neither blank nor ? (so MM is in both); and the output of one record "M " on
\* a and one record ?? on aa parses to Staged = [a], Unstaged = [],
\* Untracked = [aa], Conflicts = [].
C11_StagedAndUnstaged ==
    result.parsed =>
      /\ \A i \in 1..Len(statusRecs) :
           LET x == statusRecs[i][1]
               y == statusRecs[i][2]
               path == PathOf(i)
           IN  (~IsConflictPair(x, y) /\ ~(x = "?" /\ y = "?")) =>
                 /\ HasFlag(result.Staged, path, TRUE) <=> x \notin {" ", "?"}
                 /\ path \in PathsIn(result.Staged) <=> x \notin {" ", "?"}
                 /\ path \in PathsIn(result.Unstaged) <=> y \notin {" ", "?"}
      /\ statusRecs = << <<"M", " ">>, <<"?", "?">> >> =>
           /\ result.Staged = << [Staging |-> "M", Worktree |-> " ", Path |-> PathOf(1),
                                  OrigPath |-> <<>>, IsStaged |-> TRUE] >>
           /\ result.Unstaged = <<>>
           /\ result.Untracked = << [Staging |-> "?", Worktree |-> "?",
                                     Path |-> PathOf(2), OrigPath |-> <<>>,
                                     IsStaged |-> FALSE] >>
           /\ result.Conflicts = <<>>

\* A parsed output whose first record, MM, is in both Staged and Unstaged.
C11_Witness ==
    /\ result.parsed
    /\ Len(statusRecs) = 2
    /\ statusRecs[1] = <<"M", "M">>
    /\ statusRecs[2] = <<"?", "?">>
    /\ HasFlag(result.Staged, PathOf(1), TRUE)
    /\ HasFlag(result.Unstaged, PathOf(1), FALSE)
    /\ Len(result.Untracked) = 1

(***************************************************************************)
(* The byte-string functions the parsers use (strings, strconv).  A string *)
(* is a sequence of bytes; NUL, SOH (the byte 1), LF and TAB are bytes.    *)
(***************************************************************************)
SOH == "SOH"
LF == "LF"
TAB == "TAB"

\* The bytes strings.TrimSpace and strings.Fields treat as white space, of
\* those that occur in the model.
WhiteSpace == {" ", LF, TAB}

\* strings.TrimSpace.
RECURSIVE TrimLeft(_)
TrimLeft(str) ==
    IF str # <<>> /\ Head(str) \in WhiteSpace THEN TrimLeft(Tail(str)) ELSE str

RECURSIVE TrimRightSpace(_)
TrimRightSpace(str) ==
    IF str # <<>> /\ str[Len(str)] \in WhiteSpace
    THEN TrimRightSpace(SubSeq(str, 1, Len(str) - 1))
    ELSE str

TrimSpace(str) == TrimRightSpace(TrimLeft(str))

\* strings.TrimRight(str, "\n").
RECURSIVE TrimRightLF(_)
TrimRightLF(str) ==
    IF str # <<>> /\ str[Len(str)] = LF
    THEN TrimRightLF(SubSeq(str, 1, Len(str) - 1))
    ELSE str

\* strings.Index, counting from 1; 0 when sep does not occur.
Index(str, sep) ==
    LET at == {i \in 1..(Len(str) - Len(sep) + 1) : SubSeq(str, i, i + Len(sep) - 1) = sep}
    IN  IF at = {} THEN 0 ELSE CHOOSE i \in at : \A j \in at : i <= j

\* strings.SplitN(str, sep, n) for n >= 1: at most n pieces, the last one the
\* unsplit remainder.
RECURSIVE SplitN(_, _, _)
SplitN(str, sep, n) ==
    LET i == Index(str, sep)
    IN  IF n <= 1 \/ i = 0 THEN <<str>>
        ELSE <<SubSeq(str, 1, i - 1)>>
               \o SplitN(SubSeq(str, i + Len(sep), Len(str)), sep, n - 1)

\* strings.Split(str, sep): every piece.
Split(str, sep) == SplitN(str, sep, Len(str) + 1)

\* strings.Fields: the maximal runs of bytes that are not white space.
RECURSIVE Fields(_)
Fields(str) ==
    LET t == TrimLeft(str)
        ws == {i \in 1..Len(t) : t[i] \in WhiteSpace}
        end == IF ws = {} THEN Len(t) + 1 ELSE CHOOSE i \in ws : \A j \in ws : i <= j
    IN  IF t = <<>> THEN <<>>
        ELSE <<SubSeq(t, 1, end - 1)>> \o Fields(SubSeq(t, end, Len(t)))

Digits == {"0", "1", "2", "3", "4", "5", "6", "7", "8", "9"}

DigitVal(d) == CHOOSE n \in 0..9 : <<"0", "1", "2", "3", "4", "5", "6", "7", "8", "9">>[n + 1] = d

RECURSIVE DecimalVal(_)
DecimalVal(str) ==
    IF str = <<>> THEN 0
    ELSE 10 * DecimalVal(SubSeq(str, 1, Len(str) - 1)) + DigitVal(str[Len(str)])

\* strconv.ParseInt(str, 10, 64) with its error dropped: the value of a signed
\* decimal numeral, 0 for anything else.
ParseInt(str) ==
    LET neg == str # <<>> /\ Head(str) = "-"
        body == IF str # <<>> /\ Head(str) \in {"-", "+"} THEN Tail(str) ELSE str
    IN  IF body = <<>> \/ \E i \in 1..Len(body) : body[i] \notin Digits THEN 0
        ELSE IF neg THEN 0 - DecimalVal(body) ELSE DecimalVal(body)

\* strings.TrimPrefix.
TrimPrefix(str, pre) ==
    IF HasPrefix(str, pre) THEN SubSeq(str, Len(pre) + 1, Len(str)) ELSE str

(***************************************************************************)
(* ParseRefs, parseCommitEntry and ParseLogOutput (parser.go).             *)
(***************************************************************************)
\* RefType values (types.go).
RefBranch == "RefBranch"
RefRemoteBranch == "RefRemoteBranch"
RefTag == "RefTag"
RefHead == "RefHead"

HeadArrow == <<"H", "E", "A", "D", " ", "-", ">", " ">>
TagColon == <<"t", "a", "g", ":", " ">>

\* A classification that looks for the slash before the tag prefix.
RefOf_slashFirst(r) ==
    IF r = <<"H", "E", "A", "D">>
    THEN [Name |-> r, Type |-> RefHead, Remote |-> <<>>]
    ELSE IF HasPrefix(r, HeadArrow)
    THEN [Name |-> TrimPrefix(r, HeadArrow), Type |-> RefHead, Remote |-> <<>>]
    ELSE IF Index(r, <<"/">>) > 0
    THEN LET parts == SplitN(r, <<"/">>, 2)
         IN  [Name |-> parts[2], Type |-> RefRemoteBranch, Remote |-> parts[1]]
    ELSE IF HasPrefix(r, TagColon)
    THEN [Name |-> TrimPrefix(r, TagColon), Type |-> RefTag, Remote |-> <<>>]
    ELSE [Name |-> r, Type |-> RefBranch, Remote |-> <<>>]

\* The Ref of one trimmed, non-empty token of the decoration string.
RefOf(r) ==
    IF r = <<"H", "E", "A", "D">>
    THEN [Name |-> r, Type |-> RefHead, Remote |-> <<>>]
    ELSE IF HasPrefix(r, HeadArrow)
    THEN [Name |-> TrimPrefix(r, HeadArrow), Type |-> RefHead, Remote |-> <<>>]
    ELSE IF HasPrefix(r, TagColon)
    THEN [Name |-> TrimPrefix(r, TagColon), Type |-> RefTag, Remote |-> <<>>]
    ELSE IF Index(r, <<"/">>) > 0
    THEN LET parts == SplitN(r, <<"/">>, 2)
         IN  [Name |-> parts[2], Type |-> RefRemoteBranch, Remote |-> parts[1]]
    ELSE [Name |-> r, Type |-> RefBranch, Remote |-> <<>>]

RECURSIVE RefsOf(_)
RefsOf(tokens) ==
    IF tokens = <<>> THEN <<>>
    ELSE LET r == TrimSpace(Head(tokens))
         IN  (IF r = <<>> THEN <<>> ELSE <<RefOf(r)>>) \o RefsOf(Tail(tokens))

\* ParseRefs: the decoration string %D split on ", ".
ParseRefs(raw) == RefsOf(Split(raw, <<",", " ">>))

\* "Not a commit": parseCommitEntry's (Commit{}, false).
NoCommit == [ok |-> FALSE]

\* parseCommitEntry: ten NUL-separated fields, or nothing.
parseCommitEntry(entry) ==
    LET parts == SplitN(entry, <<NUL>>, 10)
    IN  IF Len(parts) < 10 THEN NoCommit
        ELSE [ok |-> TRUE,
              Hash |-> TrimSpace(parts[1]),
              ShortHash |-> TrimSpace(parts[2]),
              Author |-> TrimSpace(parts[3]),
              AuthorEmail |-> TrimSpace(parts[4]),
              Date |-> ParseInt(TrimSpace(parts[5])),
              RelDate |-> TrimSpace(parts[6]),
              Subject |-> TrimSpace(parts[7]),
              Body |-> TrimSpace(parts[8]),
              Parents |-> Fields(TrimSpace(parts[9])),
              Refs |-> IF TrimSpace(parts[10]) # <<>>
                       THEN ParseRefs(TrimSpace(parts[10])) ELSE <<>>]

\* ParseLogOutput: cut the entry at the next SOH, trim it, skip it if empty,
\* keep the commit if it has its ten fields.
RECURSIVE ParseLogOutput(_)
ParseLogOutput(out) ==
    IF Len(out) = 0 THEN <<>>
    ELSE LET idx == IndexByte(out, SOH)
             entry == TrimSpace(IF idx = 0 THEN out ELSE SubSeq(out, 1, idx - 1))
             rest == IF idx = 0 THEN <<>> ELSE SubSeq(out, idx + 1, Len(out))
             c == parseCommitEntry(entry)
         IN  (IF entry # <<>> /\ c.ok THEN <<c>> ELSE <<>>) \o ParseLogOutput(rest)

(***************************************************************************)
(* ParseBranchOutput (parser.go).                                          *)
(***************************************************************************)
\* The length of the longest prefix of str made of the given bytes.
RECURSIVE Span(_, _)
Span(str, bytes) ==
    IF str # <<>> /\ Head(str) \in bytes THEN 1 + Span(Tail(str), bytes) ELSE 0

\* fmt.Sscanf(str, format, &v1, &v2) for a format of literal bytes and the verb
\* "%d": the values stored before the scan ended or failed, in order.  A space of
\* the format matches any number of spaces; %d skips spaces and reads a signed
\* decimal numeral.
RECURSIVE Sscanf(_, _)
Sscanf(str, format) ==
    IF format = <<>> THEN <<>>
    ELSE IF Head(format) = "%d"
    THEN LET t == SubSeq(str, Span(str, {" "}) + 1, Len(str))
             sign == IF t # <<>> /\ Head(t) \in {"-", "+"} THEN 1 ELSE 0
             n == Span(SubSeq(t, sign + 1, Len(t)), Digits)
         IN  IF n = 0 THEN <<>>
             ELSE <<ParseInt(SubSeq(t, 1, sign + n))>>
                    \o Sscanf(SubSeq(t, sign + n + 1, Len(t)), Tail(format))
    ELSE IF Head(format) = " "
    THEN Sscanf(SubSeq(str, Span(str, {" "}) + 1, Len(str)), Tail(format))
    ELSE IF str # <<>> /\ Head(str) = Head(format)
    THEN Sscanf(Tail(str), Tail(format))
    ELSE <<>>

AheadBehindFormat ==
    <<"[", "a", "h", "e", "a", "d", " ", "%d", ",", " ",
      "b", "e", "h", "i", "n", "d", " ", "%d", "]">>
AheadFormat == <<"[", "a", "h", "e", "a", "d", " ", "%d", "]">>
BehindFormat == <<"[", "b", "e", "h", "i", "n", "d", " ", "%d", "]">>

\* The Ahead and Behind of a branch from its %(upstream:track) field: the three
\* scans of ParseBranchOutput.
TrackOf(ab) ==
    IF ab = <<>> \/ ab = <<"g", "o", "n", "e">> THEN [Ahead |-> 0, Behind |-> 0]
    ELSE LET s1 == Sscanf(ab, AheadBehindFormat)
             a1 == IF Len(s1) >= 1 THEN s1[1] ELSE 0
             b1 == IF Len(s1) >= 2 THEN s1[2] ELSE 0
             s2 == Sscanf(ab, AheadFormat)
             a2 == IF a1 = 0 /\ Len(s2) >= 1 THEN s2[1] ELSE a1
             s3 == Sscanf(ab, BehindFormat)
             b3 == IF b1 = 0 /\ Len(s3) >= 1 THEN s3[1] ELSE b1
         IN  [Ahead |-> a2, Behind |-> b3]

RemotesPrefix == <<"r", "e", "m", "o", "t", "e", "s", "/">>

\* The Branch of one line with its six fields.
BranchOf(parts) ==
    LET name == TrimSpace(parts[2])
        track == TrackOf(TrimSpace(parts[5]))
    IN  [Name |-> TrimPrefix(name, RemotesPrefix),
         IsCurrent |-> TrimSpace(parts[1]) = <<"*">>,
         IsRemote |-> HasPrefix(name, RemotesPrefix),
         Upstream |-> TrimSpace(parts[4]),
         Hash |-> TrimSpace(parts[3]),
         Subject |-> TrimSpace(parts[6]),
         Ahead |-> track.Ahead,
         Behind |-> track.Behind]

RECURSIVE BranchesOf(_)
BranchesOf(lines) ==
    IF lines = <<>> THEN <<>>
    ELSE LET parts == SplitN(Head(lines), <<NUL>>, 6)
         IN  (IF Len(parts) < 6 THEN <<>> ELSE <<BranchOf(parts)>>)
               \o BranchesOf(Tail(lines))

\* ParseBranchOutput: the lines of the output, each split into six fields; a
\* line with fewer is skipped.
ParseBranchOutput(out) ==
    IF Len(out) = 0 THEN <<>>
    ELSE BranchesOf(Split(TrimRightLF(out), <<LF>>))

(***************************************************************************)
(* SpecShort: the three record parsers on tool outputs in which some       *)
(* records are short.  A record is an item <<kind, variant>>: kind "ok"    *)
(* for a record with all its fields, "short" for one that lacks some.  The *)
(* i-th record of an output is about the i-th commit, branch or path, so   *)
(* that the records of one output are distinct.                            *)
(***************************************************************************)
Dig(i) == <<"0", "1", "2", "3", "4", "5", "6", "7", "8", "9">>[i + 1]

\* The strings of seqs joined with the byte sep between them.
RECURSIVE Join(_, _)
Join(seqs, sep) ==
    IF seqs = <<>> THEN <<>>
    ELSE IF Len(seqs) = 1 THEN seqs[1]
    ELSE seqs[1] \o <<sep>> \o Join(Tail(seqs), sep)

\* The ten fields git log writes with logFormat for the i-th commit: a root
\* commit without decoration, or a merge with a two-line body, two parents
\* and three refs.
CommitFields(i, variant) ==
    << <<"h", Dig(i)>>, <<Dig(i)>>, <<"a">>, <<"e">>, <<"1", Dig(i)>>, <<"r">>,
       <<"s", Dig(i)>>,
       IF variant = "root" THEN <<>> ELSE <<"b", LF, "c">>,
       IF variant = "root" THEN <<>> ELSE <<"p", " ", "q">>,
       IF variant = "root" THEN <<>>
       ELSE <<"H", "E", "A", "D", " ", "-", ">", " ", "m", ",", " ",
              "t", "a", "g", ":", " ", "v", ",", " ", "o", "/", "m">> >>

\* The six fields git branch writes with branchFormat for the i-th branch: the
\* current local branch, ahead of its upstream, or a remote branch.
BranchFields(i, variant) ==
    IF variant = "local"
    THEN << <<"*">>, <<"m", Dig(i)>>, <<"h", Dig(i)>>, <<"o", "/", "m", Dig(i)>>,
            <<"[", "a", "h", "e", "a", "d", " ", Dig(i), "]">>, <<"s", Dig(i)>> >>
    ELSE << <<" ">>, RemotesPrefix \o <<"o", "/", "b", Dig(i)>>, <<"h", Dig(i)>>,
            <<>>, <<>>, <<"s", Dig(i)>> >>

\* How many fields a short record has.
ShortLen(variant) == IF variant = "one" THEN 1 ELSE IF variant = "five" THEN 5 ELSE 9

\* The bytes of the i-th record of an output of the given parser.
RenderItem(parser, item, i) ==
    LET kind == item[1]
        v == item[2]
    IN
    IF parser = "log"
    THEN (IF kind = "ok" THEN Join(CommitFields(i, v), NUL)
          ELSE Join(SubSeq(CommitFields(i, "merge"), 1, ShortLen(v)), NUL))
         \o <<SOH, LF>>
    ELSE IF parser = "branch"
    THEN (IF kind = "ok" THEN Join(BranchFields(i, v), NUL)
          ELSE Join(SubSeq(BranchFields(i, "local"), 1, ShortLen(v)), NUL))
         \o <<LF>>
    ELSE IF kind = "ok"
    THEN <<v[1], v[2], " ">> \o PathOf(i) \o <<NUL>>
           \o (IF IsRename(v[1], v[2]) THEN OrigPathOf(i) \o <<NUL>> ELSE <<>>)
    ELSE IF v = "nopath" THEN <<"M", " ", " ", NUL>>
    ELSE <<"R", " ", " ">> \o PathOf(i) \o <<NUL>>

\* The output made of the records recs[i] for i in keep, in order.
RECURSIVE Render(_, _, _, _)
Render(parser, recs, keep, i) ==
    IF i > Len(recs) THEN <<>>
    ELSE (IF i \notin keep THEN <<>> ELSE RenderItem(parser, recs[i], i))
         \o Render(parser, recs, keep, i + 1)

Items(parser) ==
    IF parser = "log"
    THEN {<<"ok", "root">>, <<"ok", "merge">>, <<"short", "one">>, <<"short", "nine">>}
    ELSE IF parser = "branch"
    THEN {<<"ok", "local">>, <<"ok", "remote">>, <<"short", "one">>, <<"short", "five">>}
    ELSE {<<"ok", <<"M", " ">>>>, <<"ok", <<" ", "M">>>>, <<"ok", <<"R", " ">>>>,
          <<"ok", <<"?", "?">>>>, <<"short", "nopath">>, <<"short", "noorig">>}

Parsers == {"log", "branch", "status"}

Valid(recs) == {i \in 1..Len(recs) : recs[i][1] = "ok"}

\* Any output of up to MaxBatch records, short ones among them, not parsed yet.
BatchInit ==
    /\ \E parser \in Parsers, n \in 1..MaxBatch :
         \E recs \in [1..n -> Items(parser)] :
            batch = [parser |-> parser, recs |-> recs,
                     out |-> Render(parser, recs, 1..n, 1)]
    /\ batchRes = NoBatchRes

\* CLIService.Log: ParseLogOutput on the output, and on the output without its
\* short records.
ShortLog ==
    /\ batch.parser = "log" /\ ~batchRes.done
    /\ batchRes' = [done |-> TRUE,
                    got |-> ParseLogOutput(batch.out),
                    want |-> ParseLogOutput(
                                Render("log", batch.recs, Valid(batch.recs), 1))]
    /\ UNCHANGED <<batch, outsideShort>>

\* CLIService.Branches: ParseBranchOutput, likewise.
ShortBranch ==
    /\ batch.parser = "branch" /\ ~batchRes.done
    /\ batchRes' = [done |-> TRUE,
                    got |-> ParseBranchOutput(batch.out),
                    want |-> ParseBranchOutput(
                                Render("branch", batch.recs, Valid(batch.recs), 1))]
    /\ UNCHANGED <<batch, outsideShort>>

\* CLIService.Status: ParseStatusOutput, likewise.
ShortStatus ==
    /\ batch.parser = "status" /\ ~batchRes.done
    /\ batchRes' = [done |-> TRUE,
                    got |-> ParseStatusOutput(batch.out),
                    want |-> ParseStatusOutput(
                                Render("status", batch.recs, Valid(batch.recs), 1))]
    /\ UNCHANGED <<batch, outsideShort>>

ShortNext ==
    \/ ShortLog
    \/ ShortBranch
    \/ ShortStatus

SpecShortInit == BaseInit /\ ParseInit /\ BatchInit

SpecShort == SpecShortInit /\ [][ShortNext]_vars

\* C12 as claimed: parser robustness.  For each of the three parsers, the
\* result of an output with short records is the result of the same output
\* without them: a short record adds nothing and changes no valid record.
C12_ShortRecordsDropped == batchRes.done => batchRes.got = batchRes.want

\* The loop takes its timer case: the timer was ready and is nil afterwards.
TimerCaseTaken == timer = "fired" /\ timer' = "nil"

C13_DropWhenFull == (TimerCaseTaken /\ ch = 1) => ch' = 1

\* C13: at most one pending notification.  ch never holds more than one Event;
\* a timer case taken while ch holds an Event leaves ch as it is (the new
\* notification is dropped); and the running loop is never kept from its
\* timer case or from the next filesystem event by what ch holds.
C13_AtMostOnePending ==
    /\ [](ch <= 1)
    /\ [][C13_DropWhenFull]_vars
    /\ []((wst.loop = "run" /\ timer = "fired") => ENABLED LoopTimer)
    /\ []((wst.loop = "run" /\ wEvents # <<>>) => ENABLED LoopEvent)

\* A notification has just been dropped because ch was full: ch still holds
\* its one Event, and the running loop has a filesystem event to go on with.
C13_Witness ==
    /\ win.full /\ win.sent = 0
    /\ ch = 1
    /\ timer = "nil"
    /\ wst.loop = "run" /\ ~wst.done
    /\ wEvents # <<>>

\* C14: invalidation on success.  Under SpecSeq (no concurrent read): when the
\* last call made is a write whose inner call returned no error, the entry map
\* is empty: every key is gone, whatever it was and whatever it held.
C14_ClearedOnSuccess ==
    (hist # <<>> /\ IsOkWrite(Len(hist))) => cache = EmptyCache

\* Two keys were cached, one of them with an error, none by a hit; the
\* successful write that followed left the map empty.
C14_Witness ==
    /\ Len(hist) = 3
    /\ IsRead(1, "head") /\ hist[1].inner /\ hist[1].err = NoErr
    /\ IsRead(2, "status") /\ hist[2].inner /\ hist[2].err \in Errs
    /\ IsOkWrite(3)
    /\ DOMAIN cache = {}

(***************************************************************************)
(* SpecCap: set on maps at and near maxCacheEntries.  The keys are numbers *)
(* here; the first of them hold entries that expired, the others entries   *)
(* that expire at the instant the clock shows or later.                    *)
(***************************************************************************)
\* A map of n entries of which the first e expired before time t.
FilledCache(n, e, t) ==
    [k \in 1..n |-> [val |-> <<k, 0>>, err |-> NoErr,
                     expiry |-> IF k <= e THEN t - 1 ELSE t + (k % 2)]]

\* A CachedService whose map holds between cap - CapSlack and cap entries.
FilledInit ==
    /\ now = 1
    /\ repo = 1
    /\ \E n \in (maxCacheEntries - CapSlack)..maxCacheEntries :
          \E e \in 0..n : cache = FilledCache(n, e, now)

\* c.set(key, val, err) on the map as it is.
CapSet(key) ==
    /\ found.sets < MaxSets
    /\ \E err \in {NoErr} \cup Errs :
          cache' = set(cache, key, <<key, repo>>, err, now)
    /\ found' = [sets |-> found.sets + 1, map |-> cache, key |-> key, at |-> now]
    /\ UNCHANGED <<now, outsideCap>>

\* The clock advances.
CapTick ==
    /\ now < MaxTime
    /\ now' = now + 1
    /\ UNCHANGED <<cache, found, outsideCap>>

\* The keys set is called with: one of the first, one of the last, new ones.
CapKeys == {1, maxCacheEntries - CapSlack, maxCacheEntries + 1, maxCacheEntries + 2}

CapNext ==
    \/ \E key \in CapKeys : CapSet(key)
    \/ CapTick

SpecCapInit == FilledInit /\ RestInit /\ ParseInit /\ ShortInit

SpecCap == SpecCapInit /\ [][CapNext]_vars

\* The keys of map c whose entries have not expired at time t.
Live(c, t) == {k \in DOMAIN c : ~(t > c[k].expiry)}

\* Map c holds the entries of map b for the keys ks.
Keeps(c, b, ks) == \A k \in ks : k \in DOMAIN c /\ c[k] = b[k]

\* C15: growth bound.  After every set the map holds at most maxCacheEntries
\* entries.  A set that found the map at or over the cap left, besides its own
\* key, exactly the entries that had not expired, unchanged, if these were fewer
\* than the cap, and nothing otherwise; a set that found the map below the cap
\* left every entry that had not expired, but its own key's, unchanged.
C15_GrowthBound ==
    /\ Cardinality(DOMAIN cache) <= maxCacheEntries
    /\ found.sets > 0 /\ found.at = now =>
         LET before == found.map
             live == Live(before, found.at)
             others == live \ {found.key}
         IN  /\ found.key \in DOMAIN cache
             /\ IF Cardinality(DOMAIN before) >= maxCacheEntries
                THEN IF Cardinality(live) < maxCacheEntries
                     THEN /\ DOMAIN cache = live \cup {found.key}
                          /\ Keeps(cache, before, others)
                     ELSE DOMAIN cache = {found.key}
                ELSE Keeps(cache, before, others)

\* A set of a new key found the map at the cap with three expired entries, and
\* left the 61 others and its own.
C15_Witness ==
    /\ found.sets > 0
    /\ found.key = maxCacheEntries + 1
    /\ Cardinality(DOMAIN found.map) = maxCacheEntries
    /\ Cardinality(Live(found.map, found.at)) = maxCacheEntries - 3
    /\ Cardinality(DOMAIN cache) = maxCacheEntries - 2

(***************************************************************************)
(* SpecPass: one caller making cached reads and the calls the              *)
(* CachedService hands to the inner Service without caching: Log,          *)
(* LogGraph, Show, Diff, DiffRange, StashShow, BisectLog.                  *)
(***************************************************************************)
PassOps == {"Log", "LogGraph", "Show", "Diff", "DiffRange", "StashShow", "BisectLog"}

\* The argument lists the caller uses for each operation.
ArgsOf(op) ==
    IF op = "Log" THEN {<<1>>, <<1, "--all">>}
    ELSE IF op = "LogGraph" THEN {<<1>>, <<2>>}
    ELSE IF op = "Show" THEN {<<"h1">>, <<"h2">>}
    ELSE IF op = "Diff" THEN {<<TRUE, "a">>, <<FALSE, "a">>}
    ELSE IF op = "DiffRange" THEN {<<"h1", "h2">>, <<"h2", "h1">>}
    ELSE IF op = "StashShow" THEN {<<0>>, <<1>>}
    ELSE {<<>>}

\* What the inner Service may return for the call op(args): a value that depends
\* on the operation, its arguments and the repository, or an error.
InnerPass(op, args) ==
    {[val |-> <<op, args, repo>>, err |-> NoErr]}
    \cup {[val |-> <<op, 0>>, err |-> e] : e \in Errs}

\* The delegating methods that would cache what succeeded.
PassCache_onSuccess(c, op, r, t) == IF r.err = NoErr THEN set(c, op, r.val, r.err, t) ELSE c

\* The delegating methods that would cache their result under the operation name.
PassCache_stores(c, op, r, t) == set(c, op, r.val, r.err, t)

\* The entry map after a delegating method returned r at time t: these methods do
\* not touch it.
PassCache(c, op, r, t) == c

\* The calls of the inner Service a delegating method makes for op(args).
PassInnerCalls(op, args) == << [op |-> op, args |-> args] >>

\* return c.inner.Log(limit, args...), and likewise for the six other operations.
SeqPass(op, args) ==
    /\ Len(hist) < MaxCalls
    /\ \E r \in InnerPass(op, args) :
         /\ cache' = PassCache(cache, op, r, now)
         /\ hist' = Append(hist,
                [op |-> "pass", key |-> op, t0 |-> now, t |-> now, val |-> r.val,
                 err |-> r.err, inner |-> TRUE, args |-> args,
                 calls |-> PassInnerCalls(op, args), returned |-> r])
    /\ UNCHANGED <<now, repo, outsideSeq>>

PassNext ==
    \/ \E k \in Keys : SeqRead(k)
    \/ \E op \in PassOps : \E args \in ArgsOf(op) : SeqPass(op, args)

SpecPass == Init /\ [][PassNext]_vars

IsPass(i) == hist[i].op = "pass"

\* A delegated call is the last call made in this step.
PassStep == Len(hist') = Len(hist) + 1 /\ hist'[Len(hist')].op = "pass"

C16_MapUntouched == PassStep => cache' = cache

\* C16: uncached operations.  Every call of Log, LogGraph, Show, Diff,
\* DiffRange, StashShow or BisectLog on the CachedService calls the inner Service
\* once, the same operation with the same arguments, returns what it returned,
\* and leaves the entry map as it was.
C16_NeverCached ==
    /\ [](\A i \in Idx : IsPass(i) =>
            /\ hist[i].calls = << [op |-> hist[i].key, args |-> hist[i].args] >>
            /\ hist[i].val = hist[i].returned.val
            /\ hist[i].err = hist[i].returned.err)
    /\ [][C16_MapUntouched]_vars

\* After a cached read, the same Diff was made twice within the TTL: both calls
\* went to the inner Service, and the map holds the read's entry only.
C16_Witness ==
    /\ Len(hist) = 3
    /\ IsRead(1, "head") /\ hist[1].inner
    /\ IsPass(2) /\ hist[2].key = "Diff" /\ hist[2].err = NoErr
    /\ IsPass(3) /\ hist[3].key = "Diff" /\ hist[3].args = hist[2].args
    /\ hist[3].calls # <<>>
    /\ DOMAIN cache = {"head"}
    /\ now <= cache["head"].expiry

(***************************************************************************)
(* SpecDeadline: runGit with the clock.  The context of a call is created  *)
(* on entry with the timeout of the call's class; the clock advances in    *)
(* steps of TimeUnit seconds.  A goroutine that can proceed does so before *)
(* the clock advances: a send on gitSemaphore that has room, the ctx.Done  *)
(* case at the deadline, and cmd.Run returning once exec.CommandContext    *)
(* has killed the process at the deadline.                                 *)
(***************************************************************************)
\* The timeout run, runWrite and runNetwork pass to runGit.
TimeoutOf(cls) ==
    IF cls = "read" THEN cmdTimeoutRead
    ELSE IF cls = "write" THEN cmdTimeoutWrite
    ELSE cmdTimeoutNetwork

\* A deadline that starts when the slot is acquired.
LeftAfterAcquire_restarts(l, cls) == TimeoutOf(cls)

\* The time left to a call when it has acquired its slot: the context is the
\* one created on entry, so what was left before.
LeftAfterAcquire(l, cls) == l

Active == {p \in Callers : rpc[p] # "idle"}

\* runGit is entered: ctx, cancel := context.WithTimeout(Background(), timeout).
\* Callers are interchangeable goroutines: the idle caller with the smallest
\* number is the one that calls next.
TRunGit(p, cls) ==
    /\ rpc[p] = "idle"
    /\ \A q \in Callers : q < p => rpc[q] # "idle"
    /\ started < MaxRunGit
    /\ started' = started + 1
    /\ rpc' = [rpc EXCEPT ![p] = "acquire"]
    /\ rcls' = [rcls EXCEPT ![p] = cls]
    /\ rres' = [rres EXCEPT ![p] = "none"]
    /\ left' = [left EXCEPT ![p] = TimeoutOf(cls)]
    /\ age' = [age EXCEPT ![p] = 0]
    /\ UNCHANGED <<gitSemaphore, outsideDeadline>>

\* acquireGitSemaphore takes a slot; runGit starts the process under ctx.
TAcquire(p) ==
    /\ rpc[p] = "acquire"
    /\ CanAcquire(gitSemaphore)
    /\ gitSemaphore' = gitSemaphore + 1
    /\ rpc' = [rpc EXCEPT ![p] = "running"]
    /\ left' = [left EXCEPT ![p] = LeftAfterAcquire(@, rcls[p])]
    /\ UNCHANGED <<rcls, rres, age, started, outsideDeadline>>

\* acquireGitSemaphore: case <-ctx.Done() at the deadline; runGit returns the
\* error, no slot taken.
TAcquireTimeout(p) ==
    /\ rpc[p] = "acquire"
    /\ left[p] = 0
    /\ rpc' = [rpc EXCEPT ![p] = "idle"]
    /\ rres' = [rres EXCEPT ![p] = "semtimeout"]
    /\ rcls' = [rcls EXCEPT ![p] = "-"]
    /\ left' = [left EXCEPT ![p] = 0]
    /\ age' = [age EXCEPT ![p] = 0]
    /\ UNCHANGED <<gitSemaphore, started, outsideDeadline>>

\* cmd.Run returns: git exited by itself ("ok", "exit") or was killed at the
\* deadline ("deadline"); the deferred release runs and runGit returns.
TProcEnd(p, outcome) ==
    /\ rpc[p] = "running"
    /\ outcome = "deadline" => left[p] = 0
    /\ gitSemaphore > 0
    /\ gitSemaphore' = SemAfterReturn(gitSemaphore, outcome)
    /\ rpc' = [rpc EXCEPT ![p] = "idle"]
    /\ rres' = [rres EXCEPT ![p] = outcome]
    /\ rcls' = [rcls EXCEPT ![p] = "-"]
    /\ left' = [left EXCEPT ![p] = 0]
    /\ age' = [age EXCEPT ![p] = 0]
    /\ UNCHANGED <<started, outsideDeadline>>

\* TimeUnit seconds pass for every call in progress.
TTick ==
    /\ Active # {}
    /\ \A p \in Active : left[p] >= TimeUnit
    /\ ~(\E p \in Callers : rpc[p] = "acquire" /\ CanAcquire(gitSemaphore))
    /\ left' = [p \in Callers |-> IF p \in Active THEN left[p] - TimeUnit ELSE left[p]]
    /\ age' = [p \in Callers |-> IF p \in Active THEN age[p] + TimeUnit ELSE age[p]]
    /\ UNCHANGED <<semVars, started, outsideDeadline>>

DeadlineNext ==
    \/ \E p \in Callers, cls \in Classes : TRunGit(p, cls)
    \/ \E p \in Callers : TAcquire(p)
    \/ \E p \in Callers : TAcquireTimeout(p)
    \/ \E p \in Callers, o \in {"ok", "exit", "deadline"} : TProcEnd(p, o)
    \/ TTick

SpecDeadline == Init /\ [][DeadlineNext]_vars

\* runGit returns from where caller p is, at the deadline.
ReturnAtDeadline(p) == TAcquireTimeout(p) \/ TProcEnd(p, "deadline")

NilError == <<>>

\* context.DeadlineExceeded: ctx.Err() once the deadline has passed.
DeadlineExceeded ==
    <<[type |-> "context.deadlineExceededError", text |-> <<"context deadline exceeded">>]>>

\* The *exec.ExitError of a process that ended in the given state.
ExitError(state) == <<[type |-> "*exec.ExitError", text |-> <<state>>]>>

\* fmt.Errorf with a format that ends in ": %w": text is what is formatted
\* before the wrapped error.
Errorf(text, err) == <<[type |-> "*fmt.wrapError", text |-> text]>> \o err

\* errors.Is(err, context.DeadlineExceeded).
IsDeadlineExceeded(err) == \E i \in 1..Len(err) : err[i] = DeadlineExceeded[1]

\* errors.As(err, &exitErr) for an *exec.ExitError.
IsExitError(err) == \E i \in 1..Len(err) : err[i].type = "*exec.ExitError"

\* How an invocation ends: git exits 0, exits non-zero, is killed at the
\* deadline by exec.CommandContext, is not started because the deadline passed
\* between acquisition and cmd.Start, or the wait for a slot ends at the deadline.
Causes == {"ok", "exit", "killed", "nostart", "semtimeout"}

DeadlineCauses == {"killed", "nostart", "semtimeout"}

\* What cmd.Run returns: nil, the ExitError of the process state (also for a
\* process ended by the kill signal), or ctx.Err() from Start.
CmdRun(cause) ==
    IF cause = "ok" THEN NilError
    ELSE IF cause = "exit" THEN ExitError("exit status 1")
    ELSE IF cause = "killed" THEN ExitError("signal: killed")
    ELSE DeadlineExceeded

\* strings.Join(args, " ") after "git ".
GitLine(args) == <<"git", " ">> \o Join(args, " ")

\* runGit: the error of acquireGitSemaphore wrapped, or the error of cmd.Run
\* wrapped with the trimmed stderr (stdout when that is empty), or stdout.
runGit(args, cause, stdout, stderr) ==
    IF cause = "semtimeout"
    THEN [out |-> <<>>,
          err |-> Errorf(GitLine(args) \o <<":", " ", "waiting for semaphore">>,
                         DeadlineExceeded)]
    ELSE LET e == CmdRun(cause)
             errMsg == IF TrimSpace(stderr) = <<>> THEN TrimSpace(stdout)
                       ELSE TrimSpace(stderr)
         IN  IF e # NilError
             THEN [out |-> <<>>, err |-> Errorf(GitLine(args) \o <<":", " ">> \o errMsg, e)]
             ELSE [out |-> stdout, err |-> NilError]

\* An argument list: each word is one argument.
Argv(words) == [i \in 1..Len(words) |-> <<words[i]>>]

\* NewCLIService and the Service methods that invoke git: name, how the method treats the result
\* of runGit, the arguments of its (first) invocation, and the message it wraps
\* an error with.  "read", "write" and "network" return the error of run,
\* runWrite and runNetwork as it is, "wrap" wraps the error of run; "read" and
\* "wrap" parse the output, "diff" returns it truncated, "raw" as it is.
Methods ==
    << <<"NewCLIService", "open", <<"rev-parse", "--show-toplevel">>,
         "finding .git directory">>,
       <<"Head", "Head", <<"symbolic-ref", "--short", "HEAD">>, "getting HEAD">>,
       <<"IsClean", "read", <<"status", "--porcelain", "--untracked-files=no">>, "">>,
       <<"AheadBehind", "AheadBehind",
         <<"rev-list", "--left-right", "--count", "HEAD...@{upstream}">>, "">>,
       <<"Upstream", "Upstream", <<"rev-parse", "--abbrev-ref", "@{upstream}">>, "">>,
       <<"Status", "wrap",
         <<"status", "--porcelain=v1", "-z", "--untracked-files=normal">>, "getting status">>,
       <<"Stage", "write", <<"add", "--", "path">>, "">>,
       <<"StageAll", "write", <<"add", "-A">>, "">>,
       <<"Unstage", "write", <<"reset", "HEAD", "--", "path">>, "">>,
       <<"UnstageAll", "write", <<"reset", "HEAD">>, "">>,
       <<"Discard", "write", <<"checkout", "--", "path">>, "">>,
       <<"Commit", "write", <<"commit", "-m", "message">>, "">>,
       <<"CommitAmend", "write", <<"commit", "--amend", "-m", "message">>, "">>,
       <<"Log", "wrap", <<"log", "--max-count=1", "--format">>, "getting log">>,
       <<"LogGraph", "wrap", <<"log", "--max-count=1", "--graph", "--all", "--format">>,
         "getting log graph">>,
       <<"Show", "Show", <<"log", "--max-count=1", "--format", "hash", "-1">>,
         "showing commit hash">>,
       <<"Diff", "diff", <<"diff", "--color=never", "--no-ext-diff">>, "">>,
       <<"DiffRange", "diff", <<"diff", "--color=never", "--no-ext-diff", "from..to">>, "">>,
       <<"Branches", "read", <<"branch", "-a", "--format", "--sort=-committerdate">>, "">>,
       <<"CreateBranch", "write", <<"branch", "name">>, "">>,
       <<"SwitchBranch", "write", <<"switch", "name">>, "">>,
       <<"DeleteBranch", "write", <<"branch", "-d", "name">>, "">>,
       <<"MergeBranch", "write", <<"merge", "name">>, "">>,
       <<"RenameBranch", "write", <<"branch", "-m", "old", "new">>, "">>,
       <<"StashList", "read", <<"stash", "list">>, "">>,
       <<"StashSave", "write", <<"stash", "push">>, "">>,
       <<"StashPop", "write", <<"stash", "pop", "stash@{0}">>, "">>,
       <<"StashApply", "write", <<"stash", "apply", "stash@{0}">>, "">>,
       <<"StashDrop", "write", <<"stash", "drop", "stash@{0}">>, "">>,
       <<"StashShow", "raw", <<"stash", "show", "-p", "stash@{0}">>, "">>,
       <<"Remotes", "read", <<"remote", "-v">>, "">>,
       <<"Fetch", "network", <<"fetch", "remote">>, "">>,
       <<"Pull", "network", <<"pull", "remote", "branch">>, "">>,
       <<"Push", "network", <<"push", "remote", "branch">>, "">>,
       <<"WorktreeList", "read", <<"worktree", "list", "--porcelain">>, "">>,
       <<"WorktreeAdd", "write", <<"worktree", "add", "path">>, "">>,
       <<"WorktreeRemove", "write", <<"worktree", "remove", "path">>, "">>,
       <<"RebaseInteractive", "write", <<"rebase", "-i", "onto">>, "">>,
       <<"RebaseContinue", "write", <<"rebase", "--continue">>, "">>,
       <<"RebaseAbort", "write", <<"rebase", "--abort">>, "">>,
       <<"BisectStart", "write", <<"bisect", "start", "bad", "good">>, "">>,
       <<"BisectGood", "write", <<"bisect", "good">>, "">>,
       <<"BisectBad", "write", <<"bisect", "bad">>, "">>,
       <<"BisectReset", "write", <<"bisect", "reset">>, "">>,
       <<"BisectLog", "raw", <<"bisect", "log">>, "">>,
       <<"ConflictFiles", "read", <<"diff", "--name-only", "--diff-filter=U">>, "">>,
       <<"MarkResolved", "write", <<"add", "path">>, "">> >>

CliOps == {Methods[i][1] : i \in 1..Len(Methods)}

MethodOf(op) == Methods[CHOOSE i \in 1..Len(Methods) : Methods[i][1] = op]

ShapeOf(op) == MethodOf(op)[2]

WrapOf(op) == <<MethodOf(op)[4], ":", " ">>

\* The method makes another invocation: its first; Head's rev-parse after a
\* failed symbolic-ref; Show's git show after a Log that returned a commit;
\* NewCLIService's rev-parse --git-dir after rev-parse --show-toplevel.
NeedsRun(op, rs) ==
    \/ Len(rs) = 0
    \/ op = "NewCLIService" /\ Len(rs) = 1 /\ rs[1].err = NilError
    \/ op = "Head" /\ Len(rs) = 1 /\ rs[1].err # NilError
    \/ op = "Show" /\ Len(rs) = 1 /\ rs[1].err = NilError
                   /\ ParseLogOutput(rs[1].out) # <<>>

\* The arguments of the next invocation.
NextArgs(op, rs) ==
    IF Len(rs) = 0 THEN Argv(MethodOf(op)[3])
    ELSE IF op = "NewCLIService" THEN Argv(<<"rev-parse", "--git-dir">>)
    ELSE IF op = "Head" THEN Argv(<<"rev-parse", "--short", "HEAD">>)
    ELSE Argv(<<"show", "--format=", "--patch", "hash">>)

\* The function the method calls for its invocations: NewCLIService calls
\* runGit itself.
RunnerOf(op) ==
    IF ShapeOf(op) = "open" THEN "runGit"
    ELSE IF ShapeOf(op) = "write" THEN "runWrite"
    ELSE IF ShapeOf(op) = "network" THEN "runNetwork"
    ELSE "run"

readEnv == <<"GIT_OPTIONAL_LOCKS=0">>

\* The extraEnv argument of runGit: what the process gets besides the
\* environment it inherits.
ExtraEnv(runner) == IF runner = "run" THEN readEnv ELSE <<>>

\* The timeout argument of runGit.
TimeoutArg(runner) ==
    IF runner = "runWrite" THEN cmdTimeoutWrite
    ELSE IF runner = "runNetwork" THEN cmdTimeoutNetwork
    ELSE cmdTimeoutRead

\* ErrNotARepo.
ErrNotARepo == <<[type |-> "*errors.errorString", text |-> <<"not a git repository">>]>>

\* filepath.IsAbs and filepath.Join, for clean paths.
IsAbs(path) == HasPrefix(path, <<"/">>)

JoinPath(a, b) == IF a = <<>> THEN b ELSE IF b = <<>> THEN a ELSE a \o <<"/">> \o b

\* fmt.Sscan(part, &n) with its error dropped: n stays 0 without a numeral.
Sscan(part) == LET got == Sscanf(part, <<"%d">>) IN IF got = <<>> THEN 0 ELSE got[1]

\* A stretch of diff text of maxDiffBytes - 2 bytes, written as one element.
Bulk == "bulk"

ByteLen(b) == IF b = Bulk THEN maxDiffBytes - 2 ELSE 1

\* len(str).
RECURSIVE StrLen(_)
StrLen(str) == IF str = <<>> THEN 0 ELSE ByteLen(Head(str)) + StrLen(Tail(str))

\* str[:n], for n that does not fall inside a Bulk.
RECURSIVE Prefix(_, _)
Prefix(str, n) ==
    IF str = <<>> \/ ByteLen(Head(str)) > n THEN <<>>
    ELSE <<Head(str)>> \o Prefix(Tail(str), n - ByteLen(Head(str)))

\* "\n\n... (diff truncated - exceeds 512 KB) ...\n", written as one element.
TruncationNotice == "notice"

\* The diff a method keeps of the output of git.
Truncate(out) ==
    IF StrLen(out) > maxDiffBytes THEN Prefix(out, maxDiffBytes) \o <<TruncationNotice>>
    ELSE out

\* Methods that know no absence: every failed invocation is an error.
MethodResult_noAbsence(op, rs) ==
    IF rs[Len(rs)].err # NilError
    THEN [val |-> <<>>, err |-> rs[Len(rs)].err]
    ELSE [val |-> <<"parsed", rs[Len(rs)].out>>, err |-> NilError]

\* What the CLIService method returns, from the results rs of the invocations
\* it made.  The value of a parsing method is kept as the output it parses.
MethodResult(op, rs) ==
    LET r == rs[1]
        shape == ShapeOf(op)
    IN
    IF shape = "open"
    THEN IF r.err # NilError THEN [val |-> <<>>, err |-> ErrNotARepo]
         ELSE IF rs[2].err # NilError
         THEN [val |-> <<>>, err |-> Errorf(WrapOf(op), rs[2].err)]
         ELSE LET gd == TrimSpace(rs[2].out)
              IN  [val |-> <<TrimSpace(r.out),
                             IF IsAbs(gd) THEN gd ELSE JoinPath(TrimSpace(r.out), gd)>>,
                   err |-> NilError]
    ELSE IF shape = "Head"
    THEN IF r.err = NilError THEN [val |-> TrimSpace(r.out), err |-> NilError]
         ELSE IF rs[2].err # NilError
         THEN [val |-> <<>>, err |-> Errorf(WrapOf(op), r.err)]
         ELSE [val |-> TrimSpace(rs[2].out), err |-> NilError]
    ELSE IF shape = "AheadBehind"
    THEN LET parts == Fields(TrimSpace(r.out))
         IN  IF r.err # NilError \/ Len(parts) # 2 THEN [val |-> <<0, 0>>, err |-> NilError]
             ELSE [val |-> <<Sscan(parts[1]), Sscan(parts[2])>>, err |-> NilError]
    ELSE IF shape = "Upstream"
    THEN [val |-> IF r.err # NilError THEN <<>> ELSE TrimSpace(r.out), err |-> NilError]
    ELSE IF shape = "Show"
    THEN LET logErr == IF r.err # NilError THEN Errorf(<<"getting log", ":", " ">>, r.err)
                       ELSE NilError
             commits == IF r.err # NilError THEN <<>> ELSE ParseLogOutput(r.out)
         IN  IF logErr # NilError \/ commits = <<>>
             THEN [val |-> <<>>, err |-> Errorf(WrapOf(op), logErr)]
             ELSE IF rs[2].err # NilError
             THEN [val |-> <<commits[1], <<>> >>, err |-> NilError]
             ELSE [val |-> <<commits[1], Truncate(rs[2].out)>>, err |-> NilError]
    ELSE IF shape = "wrap"
    THEN IF r.err # NilError THEN [val |-> <<>>, err |-> Errorf(WrapOf(op), r.err)]
         ELSE [val |-> <<"parsed", r.out>>, err |-> NilError]
    ELSE IF shape = "read"
    THEN IF r.err # NilError THEN [val |-> <<>>, err |-> r.err]
         ELSE [val |-> <<"parsed", r.out>>, err |-> NilError]
    ELSE IF shape = "diff"
    THEN IF r.err # NilError THEN [val |-> <<>>, err |-> r.err]
         ELSE [val |-> Truncate(r.out), err |-> NilError]
    ELSE IF shape = "raw"
    THEN [val |-> r.out, err |-> r.err]
    ELSE [val |-> <<>>, err |-> r.err]

\* What the CachedService method returns for what the inner method returned:
\* a cached read on a miss returns v, err after set, a pass-through returns
\* the inner call, a write returns invalidateAndReturn(err), which is err.
CachedReturn(op, res) == res

\* What git may have written to stdout and to stderr: short outputs, and
\* outputs of maxDiffBytes - 1 to maxDiffBytes + 2 bytes.
Stdouts ==
    { <<>>, <<" ", "o", LF>>, <<"1", TAB, "2", LF>>,
      Join(CommitFields(1, "root"), NUL) \o <<SOH, LF>> }
    \cup {<<Bulk>> \o SubSeq(<<"a", "b", "c", "d">>, 1, k) : k \in 1..4}

Stderrs == { <<>>, <<" ", "f", "a", "t", "a", "l", LF>> }

\* The caller calls NewCLIService or a method of the Service.
CliCall(op) ==
    /\ call = NoCall
    /\ call' = [op |-> op, rs |-> <<>>]
    /\ ret' = NoRet
    /\ UNCHANGED outsideCli

\* The method calls run, runWrite or runNetwork and the invocation ends.
CliRunGit(cause, stdout, stderr) ==
    /\ call # NoCall
    /\ NeedsRun(call.op, call.rs)
    /\ LET args == NextArgs(call.op, call.rs)
           r == runGit(args, cause, stdout, stderr)
       IN  call' = [call EXCEPT !.rs = Append(@,
                       [args |-> args, cause |-> cause, stdout |-> stdout,
                        stderr |-> stderr, out |-> r.out, err |-> r.err,
                        env |-> ExtraEnv(RunnerOf(call.op)),
                        timeout |-> TimeoutArg(RunnerOf(call.op))])]
    /\ UNCHANGED ret
    /\ UNCHANGED outsideCli

\* The method returns, through the CachedService, to the caller.
CliReturn ==
    /\ call # NoCall
    /\ ~NeedsRun(call.op, call.rs)
    /\ LET res == CachedReturn(call.op, MethodResult(call.op, call.rs))
       IN  ret' = [done |-> TRUE, op |-> call.op, val |-> res.val, err |-> res.err,
                   rs |-> call.rs]
    /\ call' = NoCall
    /\ UNCHANGED outsideCli

CliNext ==
    \/ \E op \in CliOps : CliCall(op)
    \/ \E cause \in Causes, so \in Stdouts, se \in Stderrs : CliRunGit(cause, so, se)
    \/ CliReturn

SpecCli == Init /\ [][CliNext]_vars

\* The runGit invocations made so far for the call in progress.
Invocations == {call.rs[i] : i \in 1..Len(call.rs)}

\* What the error of an invocation carries besides the wrapped error.
Diagnostic(r) ==
    IF TrimSpace(r.stderr) = <<>> THEN TrimSpace(r.stdout) ELSE TrimSpace(r.stderr)

\* C18: an invocation that ended at its deadline, in the wait for a slot or
\* with the process running, returned an error that is a deadline error
\* (errors.Is context.DeadlineExceeded) and not the exit error a non-zero exit
\* returns; the error of a non-zero exit is an exit error, not a deadline
\* error, and its text is the argv followed by the trimmed stderr, or by the
\* trimmed stdout when that is empty.
C18_TimeoutErrorKind ==
    \A r \in Invocations :
        /\ r.cause \in DeadlineCauses =>
               IsDeadlineExceeded(r.err) /\ ~IsExitError(r.err)
        /\ r.cause = "exit" =>
               /\ IsExitError(r.err) /\ ~IsDeadlineExceeded(r.err)
               /\ r.err[1].text = GitLine(r.args) \o <<":", " ">> \o Diagnostic(r)

\* The missing upstream AheadBehind reports as (0, 0): git rev-list exited
\* non-zero on its own.
MissingUpstream(r) == ret.op = "AheadBehind" /\ r.cause = "exit"

\* C19: when an invocation made for a Service call failed, by a non-zero exit
\* or at its deadline, the call returned an error that is or wraps the error of
\* that invocation, and no success; except that AheadBehind returned (0, 0)
\* and no error for a missing upstream.
C19_ErrorsPropagate ==
    (ret.done /\ ret.op # "NewCLIService") =>
        \A i \in 1..Len(ret.rs) :
            ret.rs[i].err # NilError =>
                IF MissingUpstream(ret.rs[i])
                THEN ret.err = NilError /\ ret.val = <<0, 0>>
                ELSE ret.err # NilError /\ HasSuffix(ret.err, ret.rs[i].err)

\* The dispatch loop has received an error from w.Errors: one was reported, it
\* is no longer in the channel, and the channel was not closed.
ErrorReceived == wst.errors > 0 /\ wErrors = 0 /\ ~wst.closed

\* C20: once the dispatch loop has received an error the OS watcher reported
\* on w.Errors, the loop has returned and closed ch, so that no notification
\* follows.
C20_ErrorEndsLoop == ErrorReceived => wst.loop = "exited"

(***************************************************************************)
(* SpecWatchLive: SpecWatch with the scheduling the Go runtime gives: the  *)
(* dispatch goroutine runs when a case of its select is ready, and the     *)
(* consumer goroutine of runApp runs when ch holds an Event.  Nothing is   *)
(* assumed of the OS watcher, of the runtime timer, or of the caller of    *)
(* stop going on to w.Close().                                             *)
(***************************************************************************)
\* One iteration of the dispatch goroutine's select loop.
LoopStep ==
    \/ LoopEvent
    \/ LoopEventsClosed
    \/ LoopTimer
    \/ LoopError
    \/ LoopErrorsClosed
    \/ LoopDone

SpecWatchLive == SpecWatch /\ WF_vars(LoopStep) /\ WF_vars(Consume)

\* The consumer's for range over ch has ended: ch is closed and drained.
ConsumerDone == wst.loop = "exited" /\ ch = 0

\* C21: once stop has closed done, the dispatch goroutine eventually returns
\* and closes ch, and the consumer ranging over ch eventually terminates.
C21_StopEndsLoop == wst.done ~> ConsumerDone

\* The loop has returned on done with its timer still pending, stop not yet at
\* w.Close(), and the consumer has drained ch.
C21_Witness ==
    /\ wst.done /\ ~wst.closed
    /\ timer = "armed"
    /\ ConsumerDone

\* C22: an invocation with the read timeout has GIT_OPTIONAL_LOCKS=0 added to
\* its environment, in the Service methods and in NewCLIService; an invocation
\* with the write or the network timeout has not.
C22_ReadsCarryNoOptionalLocks ==
    \A r \in Invocations :
        (r.timeout = cmdTimeoutRead) <=> (\E i \in 1..Len(r.env) : r.env[i] = readEnv[1])

(***************************************************************************)
(* SpecUp: AheadBehind and Upstream called through the CachedService, one  *)
(* call at a time, with the clock: get, and on a miss the CLIService       *)
(* method with its invocation, set, and the return.                        *)
(***************************************************************************)
outsideUp == <<repo, hist, concVars, semVars, watchVars, parseVars, shortVars,
               capVars, timeVars, fsVars, fnVars>>

UpOps == {"AheadBehind", "Upstream"}

\* The cache key of the method.
KeyOf(op) == IF op = "AheadBehind" THEN "aheadbehind" ELSE "upstream"

\* CachedService.AheadBehind, Upstream up to the inner call: a hit returns the
\* entry (Upstream drops its error), a miss goes on to c.inner.
UpCall(op) ==
    /\ call = NoCall
    /\ LET g == get(cache, KeyOf(op), now) IN
       IF g.ok
       THEN /\ ret' = [done |-> TRUE, op |-> op, val |-> g.val,
                       err |-> IF op = "Upstream" THEN NilError ELSE g.err,
                       rs |-> <<>>, hit |-> TRUE, at |-> now]
            /\ UNCHANGED call
       ELSE /\ call' = [op |-> op, rs |-> <<>>]
            /\ ret' = NoRet
    /\ UNCHANGED <<cache, now, outsideUp>>

\* The inner method has returned: c.set(key, v, err), with nil for Upstream,
\* and the return.
UpReturn ==
    /\ call # NoCall
    /\ ~NeedsRun(call.op, call.rs)
    /\ LET res == MethodResult(call.op, call.rs) IN
       /\ cache' = set(cache, KeyOf(call.op), res.val, res.err, now)
       /\ ret' = [done |-> TRUE, op |-> call.op, val |-> res.val, err |-> res.err,
                  rs |-> call.rs, hit |-> FALSE, at |-> now]
    /\ call' = NoCall
    /\ UNCHANGED <<now, outsideUp>>

\* Time passes.
UpTick ==
    /\ now < MaxTime
    /\ now' = now + 1
    /\ UNCHANGED <<cache, call, ret, outsideUp>>

UpNext ==
    \/ \E op \in UpOps : UpCall(op)
    \/ \E cause \in Causes, so \in Stdouts, se \in Stderrs : CliRunGit(cause, so, se)
    \/ UpReturn
    \/ UpTick

SpecUp == Init /\ [][UpNext]_vars

\* The call that returned found no upstream: its git invocation exited non-zero.
NoUpstream == ret.done /\ ~ret.hit /\ ret.rs[1].cause = "exit"

\* What the cache holds for a method whose miss returned val at time t.
StoredSuccess(val, t) == [val |-> val, err |-> NilError, expiry |-> t + TTL]

\* C23: without an upstream AheadBehind returns (0, 0) and no error and
\* Upstream returns the empty string; the CachedService stores either as it
\* stores a success, with a nil error and the TTL, and serves it from the cache
\* until it expires, without an invocation.
C23_NoUpstreamIsSuccess ==
    /\ NoUpstream =>
           /\ ret.err = NilError
           /\ ret.op = "AheadBehind" => ret.val = <<0, 0>>
           /\ ret.op = "Upstream" => ret.val = <<>>
    /\ (ret.done /\ ~ret.hit /\ ret.at = now) =>
           /\ KeyOf(ret.op) \in DOMAIN cache
           /\ (NoUpstream \/ ret.rs[1].cause = "ok") =>
                  cache[KeyOf(ret.op)] = StoredSuccess(ret.val, ret.at)
    /\ (ret.done /\ ret.hit) =>
           /\ ret.rs = <<>>
           /\ ret.val = cache[KeyOf(ret.op)].val
           /\ ret.at <= cache[KeyOf(ret.op)].expiry
    /\ \A op \in UpOps :
           (call = NoCall /\ KeyOf(op) \in DOMAIN cache /\ now <= cache[KeyOf(op)].expiry)
               => get(cache, KeyOf(op), now).ok

\* AheadBehind found no upstream at time 0 and, TTL seconds later, the (0, 0)
\* is served from the cache.
C23_Witness ==
    /\ ret.done /\ ret.hit /\ ret.op = "AheadBehind"
    /\ ret.val = <<0, 0>> /\ ret.err = NilError
    /\ ret.at = TTL
    /\ cache["aheadbehind"].expiry = TTL
    /\ "upstream" \in DOMAIN cache /\ cache["upstream"].val = <<>>

DiffOps == {"Diff", "DiffRange", "Show", "StashShow"}

\* The diff a call returned, and the output of the invocation that produced it.
DiffReturned == IF ret.op = "Show" THEN ret.val[2] ELSE ret.val

DiffOutput == ret.rs[Len(ret.rs)].out

\* C24: a diff-producing call that succeeded with its diff invocation returned
\* the output as it is when that has at most maxDiffBytes (512 KiB) bytes, and
\* else its first maxDiffBytes bytes followed by the truncation notice.
C24_DiffTruncated ==
    (ret.done /\ ret.op \in DiffOps /\ ret.err = NilError
              /\ ret.rs[Len(ret.rs)].err = NilError) =>
        IF StrLen(DiffOutput) <= maxDiffBytes THEN DiffReturned = DiffOutput
        ELSE \E n \in 0..Len(DiffOutput) :
                /\ StrLen(SubSeq(DiffOutput, 1, n)) = maxDiffBytes
                /\ DiffReturned = SubSeq(DiffOutput, 1, n) \o <<TruncationNotice>>

(***************************************************************************)
(* SpecTargets: what Watch registers with the OS watcher, over the layouts *)
(* it can find under the control directory.                                *)
(***************************************************************************)
NumRemotes == 2     \* how many entries refs/remotes may hold

\* Paths are sequences of components.
repoRoot == <<"repo">>
gitDir == <<"repo", ".git">>

PathJoin(p, rel) == p \o rel

Dir(p) == SubSeq(p, 1, Len(p) - 1)

refsDir == PathJoin(gitDir, <<"refs">>)
headsDir == PathJoin(gitDir, <<"refs", "heads">>)
tagsDir == PathJoin(gitDir, <<"refs", "tags">>)
remotesDir == PathJoin(gitDir, <<"refs", "remotes">>)
packedRefs == PathJoin(gitDir, <<"packed-refs">>)

\* The names refs/remotes may hold, in the order ReadDir lists them.
EntryNames == <<"fork", "origin", "upstream">>

Entry(i) == PathJoin(remotesDir, <<EntryNames[i]>>)

WorkTreePaths == {repoRoot, PathJoin(repoRoot, <<"src">>)}

ControlPaths ==
    {gitDir, refsDir, headsDir, tagsDir, remotesDir, packedRefs}
        \cup {Entry(i) : i \in 1..NumRemotes}

Kinds == {"none", "file", "dir"}

\* The layouts Watch can find: the working tree is there, the control
\* directory is the directory the repository was opened with or is gone, and
\* below it anything can be a file, a directory or missing.
Layouts ==
    {l \in [WorkTreePaths \cup ControlPaths -> Kinds] :
        /\ \A p \in WorkTreePaths : l[p] = "dir"
        /\ l[gitDir] # "file"
        /\ \A p \in ControlPaths : l[p] # "none" => l[Dir(p)] = "dir"}

RECURSIVE RemoteDirs(_, _)
RemoteDirs(l, i) ==
    IF i > NumRemotes THEN <<>>
    ELSE (IF l[Entry(i)] = "dir" THEN <<Entry(i)>> ELSE <<>>) \o RemoteDirs(l, i + 1)

Targets(l) ==
    <<gitDir, refsDir, headsDir, tagsDir>>
        \o (IF l[remotesDir] = "dir" THEN <<remotesDir>> \o RemoteDirs(l, 1) ELSE <<>>)
        \o (IF l[packedRefs] # "none" THEN <<Dir(packedRefs)>> ELSE <<>>)

\* A regression: the parent is registered for directories too.
AddTarget_parentAlways(l, t) ==
    IF l[t] # "none" THEN {Dir(t)} ELSE {}

\* The path the loop over targets hands to w.Add for target t.
AddTarget(l, t) ==
    IF l[t] = "dir" THEN {t}
    ELSE IF l[t] = "file" THEN {Dir(t)}
    ELSE {}

\* Watch up to the start of the dispatch loop; w.Add fails for the targets
\* in failed.
TWatch(failed) ==
    /\ ~watched.done
    /\ watched' = [done |-> TRUE,
                   paths |-> UNION {AddTarget(layout, Targets(layout)[i]) :
                                       i \in (1..Len(Targets(layout))) \ failed}]
    /\ UNCHANGED <<layout, cacheVars, hist, concVars, semVars, watchVars, parseVars,
                   shortVars, capVars, timeVars, cliVars, fnVars>>

TargetsNext == \E failed \in SUBSET (1..(6 + NumRemotes)) : TWatch(failed)

SpecTargetsInit ==
    /\ CacheInit /\ NoFsInit /\ FnInit /\ ShortInit /\ ParseInit
    /\ layout \in Layouts
    /\ watched = NotWatched

SpecTargets == SpecTargetsInit /\ [][TargetsNext]_vars

IsBeneath(p, d) == Len(p) >= Len(d) /\ SubSeq(p, 1, Len(d)) = d

ControlDirs ==
    {gitDir, refsDir, headsDir, tagsDir, remotesDir} \cup {Entry(i) : i \in 1..NumRemotes}

NoiseHandled ==
    /\ wst.loop = "run"
    /\ wEvents # <<>>
    /\ Head(wEvents) \in NoiseNames
    /\ wEvents' = Tail(wEvents)
    /\ wst' = wst

\* C26: handling an event whose base name ends in .lock, .swp, .swo or ~,
\* starts with .# or fsmonitor, or is COMMIT_EDITMSG or gc.log leaves the timer
\* as it is (not created, not reset, a pending one not postponed) and sends
\* nothing; a timer comes into being only at an event of another name, and a
\* notification is sent only at the expiry of a timer, so events of these names
\* alone produce no notification.
C26_NoiseLeavesTimer ==
    [][/\ NoiseHandled => (timer' = timer /\ win' = win /\ ch' = ch)
       /\ (timer = "nil" /\ timer' # "nil")
              => (wEvents # <<>> /\ Head(wEvents) \notin NoiseNames)
       /\ ch' > ch => timer = "fired"]_vars

\* Three events were reported and handled, the timer was set once and is
\* pending: two of the events were dropped by the filter.
C26_Witness ==
    /\ wst.events = 3
    /\ wEvents = <<>>
    /\ timer = "armed"
    /\ win.k = 1
    /\ win.sent = 0
    /\ ch = 0
    /\ wst.loop = "run"

(***************************************************************************)
(* C27: the one timer of the dispatch loop.                                *)
(***************************************************************************)
\* The dispatch loop handles a qualifying event.
QualifyingHandled ==
    /\ wst.loop = "run"
    /\ wEvents # <<>>
    /\ Head(wEvents) \notin NoiseNames
    /\ wEvents' = Tail(wEvents)
    /\ wst' = wst

\* C27: the loop has one timer variable, nil or one timer; every qualifying
\* event leaves a timer set to a delay d with debounce <= d < debounce +
\* debounce/2; the handling of an expiry sends at most one notification and
\* leaves no timer, and no timer comes into being but by a qualifying event.
C27_SingleTimer ==
    /\ [](timer \in {"nil", "armed", "fired"})
    /\ [](win.sent <= 1)
    /\ [][/\ QualifyingHandled
              => /\ timer' # "nil"
                 /\ win'.k = (IF timer = "nil" THEN 1 ELSE win.k + 1)
                 /\ debounce <= win'.d
                 /\ 2 * win'.d < 2 * debounce + debounce
          /\ TimerCaseTaken => (ch' <= ch + 1 /\ win'.sent <= win.sent + 1)
          /\ (timer = "nil" /\ timer' # "nil") => QualifyingHandled]_vars

\* The timer was set and reset, to the longest delay at last; its expiry has
\* been handled with one notification, no timer is left and the next event
\* waits in w.Events.
C27_Witness ==
    /\ win.k = 2
    /\ win.d = debounce + jitterRange - 1
    /\ win.sent = 1
    /\ timer = "nil"
    /\ ch = 1
    /\ wEvents # <<>> /\ Head(wEvents) \notin NoiseNames
    /\ wst.loop = "run"

(***************************************************************************)
(* C28: an entry between its creation and its expiry.                      *)
(***************************************************************************)
\* The entry of key k has not expired.
Unexpired(k) == k \in DOMAIN cache /\ ~(now > cache[k].expiry)

\* C28 as claimed: an entry that has not expired is removed or left as it is
\* by every step, never replaced by another entry, also when several reads of
\* its key have missed concurrently.
C28_Step ==
    \A k \in Keys :
        Unexpired(k) => (k \notin DOMAIN cache' \/ cache'[k] = cache[k])

C28_EntryReadOnly == [][C28_Step]_vars

(***************************************************************************)
(* C29: two Services and the limiter.                                      *)
(***************************************************************************)
\* The calls of the CLIService of caller p that hold a slot.
RunningOn(p) == {q \in Running : InstOf(q) = InstOf(p)}

\* C29 as claimed: the slots a call finds depend on the calls in flight on its
\* own CLIService only: a call waiting in acquireGitSemaphore can take a slot
\* whenever fewer than semCapacity calls of its own CLIService hold one,
\* whatever runs on the other CLIService.
C29_NoInterference ==
    \A p \in Waiting :
        Cardinality(RunningOn(p)) < semCapacity => CanAcquire(gitSemaphore)

(***************************************************************************)
(* C30: the original path of renames and copies.                           *)
(***************************************************************************)
\* The entries of the four lists of a result, IsStaged left out.
Entries(res) ==
    LET all == res.Staged \o res.Unstaged \o res.Untracked \o res.Conflicts
    IN  {[Staging |-> all[i].Staging, Worktree |-> all[i].Worktree,
          Path |-> all[i].Path, OrigPath |-> all[i].OrigPath] : i \in 1..Len(all)}

\* What the i-th record git wrote stands for.
RecordOf(recs, i) ==
    [Staging |-> recs[i][1], Worktree |-> recs[i][2], Path |-> PathOf(i),
     OrigPath |-> IF recs[i][1] \in {StatusRenamed, StatusCopied}
                     \/ recs[i][2] \in {StatusRenamed, StatusCopied}
                  THEN OrigPathOf(i) ELSE <<>>]

\* C30: the entries of the result are the records git wrote, one for one: a
\* record with R or C as either code has the field that follows it as OrigPath,
\* that field is no entry of its own, a record of other codes has an empty
\* OrigPath, and the record after a rename or copy is parsed as any other.
C30_OrigPathConsumed ==
    result.parsed =>
        Entries(result) = {RecordOf(statusRecs, i) : i \in 1..Len(statusRecs)}

\* A rename in the working tree followed by a staged change: the rename has
\* its original path, the change after it is listed with none.
C30_Witness ==
    /\ result.parsed
    /\ statusRecs = << <<StatusUnmodified, StatusRenamed>>,
                       <<StatusModified, StatusUnmodified>> >>
    /\ Len(result.Unstaged) = 1
    /\ result.Unstaged[1].OrigPath = OrigPathOf(1)
    /\ Len(result.Staged) = 1
    /\ result.Staged[1].Path = PathOf(2)
    /\ result.Staged[1].OrigPath = <<>>

(***************************************************************************)
(* C31: opening a repository.                                              *)
(***************************************************************************)
\* errors.Is(err, ErrNotARepo).
IsErrNotARepo(err) == \E i \in 1..Len(err) : err[i] = ErrNotARepo[1]

\* NewCLIService has returned after one of its rev-parse invocations failed.
OpenFailed ==
    /\ ret.done
    /\ ret.op = "NewCLIService"
    /\ \E i \in 1..Len(ret.rs) : ret.rs[i].err # NilError

\* C31 as claimed: when rev-parse --show-toplevel or rev-parse --git-dir fails,
\* NewCLIService returns ErrNotARepo and no service.
C31_OpenFailsNotARepo ==
    OpenFailed => (IsErrNotARepo(ret.err) /\ ret.val = <<>>)

(***************************************************************************)
(* SpecRefs: ParseRefs on the decoration strings git log writes for %D.    *)
(***************************************************************************)
MaxRefs == 3        \* tokens in one decoration string

\* The tokens of a decoration: HEAD, HEAD -> m, HEAD -> f/x, tag: v, tag: r/v,
\* o/m, o/f/x, m, and the empty token.
RefTokens ==
    { <<"H", "E", "A", "D">>,
      HeadArrow \o <<"m">>,
      HeadArrow \o <<"f", "/", "x">>,
      TagColon \o <<"v">>,
      TagColon \o <<"r", "/", "v">>,
      <<"o", "/", "m">>,
      <<"o", "/", "f", "/", "x">>,
      <<"m">>,
      <<>> }

\* The tokens joined by ", ".
RECURSIVE Decoration(_)
Decoration(tokens) ==
    IF tokens = <<>> THEN <<>>
    ELSE IF Len(tokens) = 1 THEN tokens[1]
    ELSE tokens[1] \o <<",", " ">> \o Decoration(Tail(tokens))

SpecRefsInit ==
    /\ CacheInit /\ NoFsInit /\ FsInit /\ ShortInit /\ ParseInit
    /\ \E n \in 0..MaxRefs : \E tokens \in [1..n -> RefTokens] :
          input = [fn |-> "ParseRefs", tokens |-> tokens, raw |-> Decoration(tokens)]
    /\ output = NoOutput

\* parseCommitEntry: c.Refs = ParseRefs(refStr).
RefsParse ==
    /\ input.fn = "ParseRefs"
    /\ ~output.done
    /\ output' = [done |-> TRUE, val |-> ParseRefs(input.raw)]
    /\ UNCHANGED <<input, cacheVars, hist, concVars, semVars, watchVars, parseVars,
                   shortVars, capVars, timeVars, cliVars, fsVars>>

RefsNext == RefsParse

SpecRefs == SpecRefsInit /\ [][RefsNext]_vars

\* The type, name and remote the claim gives a token.
ClaimedRef(tok) ==
    IF tok = <<"H", "E", "A", "D">>
    THEN [Name |-> tok, Type |-> RefHead, Remote |-> <<>>]
    ELSE IF HasPrefix(tok, HeadArrow)
    THEN [Name |-> SubSeq(tok, 9, Len(tok)), Type |-> RefHead, Remote |-> <<>>]
    ELSE IF HasPrefix(tok, TagColon)
    THEN [Name |-> SubSeq(tok, 6, Len(tok)), Type |-> RefTag, Remote |-> <<>>]
    ELSE IF \E i \in 1..Len(tok) : tok[i] = "/"
    THEN LET first == CHOOSE i \in 1..Len(tok) :
                         tok[i] = "/" /\ \A j \in 1..(i - 1) : tok[j] # "/"
         IN  [Name |-> SubSeq(tok, first + 1, Len(tok)), Type |-> RefRemoteBranch,
              Remote |-> SubSeq(tok, 1, first - 1)]
    ELSE [Name |-> tok, Type |-> RefBranch, Remote |-> <<>>]

RECURSIVE ClaimedRefs(_)
ClaimedRefs(tokens) ==
    IF tokens = <<>> THEN <<>>
    ELSE (IF Head(tokens) = <<>> THEN <<>> ELSE <<ClaimedRef(Head(tokens))>>)
           \o ClaimedRefs(Tail(tokens))

\* C32: the Refs ParseRefs returns are the non-empty tokens of the decoration,
\* one Ref per token and in their order, each of the type the precedence HEAD,
\* tag, slash, branch gives it, with the name after "HEAD -> " or "tag: " and
\* the remote before the first slash.
C32_RefsClassified ==
    output.done => output.val = ClaimedRefs(input.tokens)

\* HEAD on a branch with a slash in its name, an empty token and a tag with a
\* slash: two Refs, a head and a tag, none of them a remote branch.
C32_Witness ==
    /\ output.done
    /\ input.tokens = <<HeadArrow \o <<"f", "/", "x">>, <<>>, TagColon \o <<"r", "/", "v">> >>
    /\ Len(output.val) = 2
    /\ output.val[1].Type = RefHead
    /\ output.val[2].Type = RefTag

(***************************************************************************)
(* C33: a write that fails.                                                *)
(***************************************************************************)
\* This step is a write whose inner call returned an error.
FailedWriteStep ==
    /\ Len(hist') = Len(hist) + 1
    /\ hist'[Len(hist')].op = "write"
    /\ hist'[Len(hist')].err # NoErr

RefChange ==
    /\ Len(hist) < MaxCalls
    /\ repo < MaxRepo
    /\ ~wst.closed
    /\ wst.events < MaxFsEvents
    /\ Len(wEvents) < MaxQueue
    /\ repo' = repo + 1
    /\ wEvents' = Append(wEvents, <<"H", "E", "A", "D">>)
    /\ wst' = [wst EXCEPT !.events = @ + 1]
    /\ hist' = Append(hist, Call("change", "-", now, now, <<"-", 0>>, NoErr, TRUE))
    /\ UNCHANGED <<cache, now, wErrors, timer, ch, win>>
    /\ UNCHANGED <<concVars, semVars, parseVars, shortVars, capVars, timeVars,
                   cliVars, fsVars, fnVars>>

\* The read a refresh makes through the CachedService (Status, Head, ...):
\* c.get, and on a miss the inner call and c.set.
RefRead(op, k) ==
    /\ Len(hist) < MaxCalls
    /\ LET g == get(cache, k, now) IN
       IF g.ok
       THEN /\ hist' = Append(hist, Call(op, k, now, now, g.val, g.err, FALSE))
            /\ UNCHANGED cacheVars
       ELSE \E r \in InnerRead(k) :
            /\ cache' = set(cache, k, r.val, r.err, now)
            /\ hist' = Append(hist, Call(op, k, now, now, r.val, r.err, TRUE))
            /\ UNCHANGED <<now, repo>>
    /\ UNCHANGED <<concVars, semVars, parseVars, shortVars, capVars, timeVars,
                   cliVars, fsVars, fnVars>>

\* for range watchCh { p.Send(RefreshMsg{}) }, Model.Update's RefreshMsg case
\* and a read of the refresh it starts.
RefRefresh(k) ==
    /\ ch > 0
    /\ ch' = ch - 1
    /\ RefRead("refresh", k)
    /\ UNCHANGED <<wEvents, wErrors, timer, wst, win>>

\* The refresh key: triggerRefresh, and a read of the refresh it starts.
RefManual(k) ==
    /\ \E i \in 1..Len(hist) : hist[i].op = "change"
    /\ RefRead("manual", k)
    /\ UNCHANGED watchVars

RefreshNext ==
    \/ \E k \in Keys : SeqRead(k)
    \/ RefChange
    \/ LoopEvent
    \/ TimerExpire
    \/ LoopTimer
    \/ \E k \in Keys : RefRefresh(k)
    \/ \E k \in Keys : RefManual(k)
    \/ Tick /\ UNCHANGED <<hist, outsideSeq>>

SpecRefresh == Init /\ [][RefreshNext]_vars

\* The calls before call j that are changes made by another process.
ChangesBefore(j) == {i \in 1..(j - 1) : hist[i].op = "change"}

\* Call j read key k from git after every change made before it: it called the
\* inner Service itself, or the read that stored the entry it got came after
\* the last change.
FreshAt(j, k) ==
    \/ hist[j].inner
    \/ \E i \in 1..(j - 1) :
          /\ hist[i].key = k /\ hist[i].inner /\ hist[i].op # "change"
          /\ \A c \in ChangesBefore(j) : c < i

\* C34 as claimed: a read issued by the refresh that follows the watcher's
\* notification of an outside change, or by a manual refresh, returns what git
\* gave after the change, not an entry cached before it.
C34_RefreshReadsFresh ==
    \A j \in 1..Len(hist) :
        hist[j].op \in {"refresh", "manual"} => FreshAt(j, hist[j].key)

(***************************************************************************)
(* SpecLive: the callers of SpecConc with the inner call spelled out: the  *)
(* wait for a slot of gitSemaphore, the git process, the release.  The     *)
(* other slots are taken and freed by calls that do not go through the     *)
(* cache (Log, Diff, Show, another CLIService).                            *)
(***************************************************************************)
\* The stages of a call in which it waits for a slot or for its process.
SlotWait == {"inner", "innerWrite"}
ProcWait == {"run", "runWrite"}

\* What the inner read gives when no process could give it: its error, or the
\* zero value for the operations that return none.
FailedRead(k) ==
    IF HasErr(k) THEN {[val |-> ZeroVal(k), err |-> e] : e \in ConcErrs}
    ELSE {[val |-> ZeroVal(k), err |-> NoErr]}

\* The inner call of p returns, with a result of git (ok) or without: a read
\* goes on to set, a write to Invalidate or, with an error, to its caller.
InnerDone(p, ok) ==
    IF pc[p] \in {"inner", "run"}
    THEN /\ \E r \in (IF ok THEN InnerRead(loc[p].key) ELSE {}) \cup FailedRead(loc[p].key) :
              /\ r.err \in {NoErr} \cup ConcErrs
              /\ loc' = [loc EXCEPT ![p].val = r.val, ![p].err = r.err]
         /\ mark' = [mark EXCEPT !.hand[p] = wclock.begun]
         /\ pc' = [pc EXCEPT ![p] = "setLock"]
         /\ UNCHANGED <<cacheVars, hist, mu, wclock>>
    ELSE \/ /\ ok /\ repo < MaxRepo
            /\ repo' = repo + 1
            /\ pc' = [pc EXCEPT ![p] = "invLock"]
            /\ UNCHANGED <<cache, now, hist, mu, loc, mark, wclock>>
         \/ /\ \E e \in ConcErrs : cache' = invalidateAndReturn(cache, e)
            /\ pc' = [pc EXCEPT ![p] = "idle"]
            /\ mark' = [mark EXCEPT !.wb[p] = 0]
            /\ UNCHANGED <<now, repo, hist, mu, loc, wclock>>

LiveFrame == UNCHANGED <<rpc, rcls, rres, watchVars, parseVars, shortVars, capVars,
                         timeVars, cliVars, fsVars, fnVars>>

\* An acquire that has no deadline.
LiveAcquireTimeout_never(p) ==
    /\ pc[p] \in SlotWait
    /\ UNCHANGED vars

\* acquireGitSemaphore: ctx.Done() wins; runGit returns the deadline error
\* without a slot.
LiveAcquireTimeout(p) ==
    /\ pc[p] \in SlotWait
    /\ InnerDone(p, FALSE)
    /\ UNCHANGED gitSemaphore
    /\ LiveFrame

\* acquireGitSemaphore takes a slot; runGit starts the process.
LiveAcquire(p) ==
    /\ pc[p] \in SlotWait
    /\ CanAcquire(gitSemaphore)
    /\ gitSemaphore' = gitSemaphore + 1
    /\ pc' = [pc EXCEPT ![p] = IF pc[p] = "inner" THEN "run" ELSE "runWrite"]
    /\ UNCHANGED <<cacheVars, hist, mu, loc, mark, wclock>>
    /\ LiveFrame

\* The process exits or is killed at its deadline: the deferred release, and
\* runGit returns.
LiveProcEnd(p) ==
    /\ pc[p] \in ProcWait
    /\ gitSemaphore' = SemAfterReturn(gitSemaphore, "ok")
    /\ \E ok \in BOOLEAN : InnerDone(p, ok)
    /\ LiveFrame

\* A call that does not go through the cache takes a slot for its process.
LiveOtherStart ==
    /\ \E q \in Callers :
          /\ rpc[q] = "idle"
          /\ \A o \in Callers : o < q => rpc[o] # "idle"
          /\ rpc' = [rpc EXCEPT ![q] = "running"]
    /\ CanAcquire(gitSemaphore)
    /\ gitSemaphore' = gitSemaphore + 1
    /\ UNCHANGED <<rcls, rres, cacheVars, hist, concVars, watchVars, parseVars,
                   shortVars, capVars, timeVars, cliVars, fsVars, fnVars>>

\* Its process ends and the slot is released.
LiveOtherEnd ==
    /\ \E q \in Callers :
          /\ rpc[q] = "running"
          /\ \A o \in Callers : o > q => rpc[o] # "running"
          /\ rpc' = [rpc EXCEPT ![q] = "idle"]
    /\ gitSemaphore' = SemAfterReturn(gitSemaphore, "ok")
    /\ UNCHANGED <<rcls, rres, cacheVars, hist, concVars, watchVars, parseVars,
                   shortVars, capVars, timeVars, cliVars, fsVars, fnVars>>

LiveNext ==
    \/ \E p \in Procs, k \in Keys : BeginRead(p, k)
    \/ \E p \in Procs : GetLock(p)
    \/ \E p \in Procs : GetBody(p)
    \/ \E p \in Procs : SetLock(p)
    \/ \E p \in Procs : SetBody(p)
    \/ \E p \in Procs : BeginWrite(p)
    \/ \E p \in Procs : InvLock(p)
    \/ \E p \in Procs : InvBody(p)
    \/ \E p \in Procs : LiveAcquire(p)
    \/ \E p \in Procs : LiveAcquireTimeout(p)
    \/ \E p \in Procs : LiveProcEnd(p)
    \/ LiveOtherStart
    \/ LiveOtherEnd

\* Every process exits or is killed at its deadline, a wait for a slot ends
\* at the latest at the deadline of its context, sync.Mutex hands the lock to
\* a goroutine that keeps waiting for it, and a goroutine that holds the lock
\* goes on to its unlock.
LiveFairness ==
    /\ WF_vars(LiveOtherEnd)
    /\ \A p \in Procs :
          /\ SF_vars(GetLock(p)) /\ SF_vars(SetLock(p)) /\ SF_vars(InvLock(p))
          /\ WF_vars(GetBody(p)) /\ WF_vars(SetBody(p)) /\ WF_vars(InvBody(p))
          /\ WF_vars(LiveAcquire(p) \/ LiveAcquireTimeout(p))
          /\ WF_vars(LiveProcEnd(p))

SpecLive == Init /\ [][LiveNext]_vars /\ LiveFairness

\* C35: no caller holds the cache mutex while it waits for a slot or for its
\* process, and every call that has begun returns.
C35_NoDeadlock ==
    /\ [](\A p \in Procs : pc[p] \in SlotWait \cup ProcWait => mu # p)
    /\ \A p \in Procs : (pc[p] # "idle") ~> (pc[p] = "idle")

\* All slots are held by calls outside the cache; one cached read waits for a
\* slot while the other caller is inside set with the mutex.
C35_Witness ==
    /\ gitSemaphore = semCapacity
    /\ \A p \in Procs : pc[p] \notin ProcWait
    /\ \E p \in Procs : pc[p] = "inner"
    /\ \E p \in Procs : pc[p] = "setBody" /\ mu = p

(***************************************************************************)
(* The watcher under the scheduling the runtime gives it: the dispatch     *)
(* goroutine and the consumer are scheduled (SpecWatchLive), and a pending *)
(* time.Timer expires once its delay has passed.                           *)
(***************************************************************************)
SpecWatchFire == SpecWatchLive /\ WF_vars(TimerExpire)

\* A qualifying event is waiting in w.Events.
QualifyingQueued ==
    \E i \in 1..Len(wEvents) : wEvents[i] \notin NoiseNames

\* The timer case of the loop is taken.
TimerHandled == timer = "fired" /\ timer' = "nil"

\* C36: unless the watcher is stopped, a qualifying event waiting in w.Events
\* leads to a pending timer, a pending timer leads to its expiry being
\* handled, the handling leaves an Event in ch (the one just sent, or the one
\* that was still pending there), and an Event in ch is received by the
\* consumer.
C36_EventLeadsToNotification ==
    /\ QualifyingQueued ~> (timer # "nil" \/ wst.done)
    /\ (timer # "nil") ~> (timer = "nil" \/ wst.done)
    /\ [][TimerHandled => ch' = 1]_vars
    /\ (ch = 1) ~> (ch = 0)

\* Two qualifying events, each with a window of its own, the watcher running:
\* the second expiry found the Event of the first still in ch.
C36_Witness ==
    /\ ~wst.done
    /\ wst.events = 2 /\ wEvents = <<>>
    /\ win.k = 1 /\ win.full
    /\ timer = "nil"
    /\ ch = 1

\* C37: an expired entry is never served.  A read served from the cache finds
\* the entry its last miss stored, and is issued no later than TTL after the
\* storing; a read issued strictly after that entry's expiry calls the inner
\* Service and leaves in the map the entry it stored, expiring TTL after its
\* own return.
C37_ExpiredNeverServed ==
    \A k \in Keys : \A j \in Idx :
        IsRead(j, k) =>
            /\ ~hist[j].inner =>
                  /\ MissesBefore(j, k) # {}
                  /\ hist[j].t0 <= hist[Storer(j, k)].t + TTL
                  /\ hist[j].val = hist[Storer(j, k)].val
            /\ (MissesBefore(j, k) # {} /\ hist[j].t0 > hist[Storer(j, k)].t + TTL) =>
                  /\ hist[j].inner
                  /\ j = Len(hist) =>
                        /\ k \in DOMAIN cache
                        /\ cache[k].val = hist[j].val
                        /\ cache[k].expiry = hist[j].t + TTL

\* A read stored an entry, no write followed, and a read of the same key
\* issued one second after the expiry called the inner Service and stored a
\* newer value.
C37_Witness ==
    \E k \in Keys : \E i, j \in Idx :
        /\ i < j /\ IsRead(i, k) /\ IsRead(j, k)
        /\ hist[i].inner /\ hist[i].err = NoErr
        /\ \A m \in (i + 1)..(j - 1) : ~IsWrite(m) /\ ~IsRead(m, k)
        /\ hist[j].t0 = hist[i].t + TTL + 1
        /\ hist[j].inner /\ hist[j].val # hist[i].val
        /\ cache[k].val = hist[j].val

(***************************************************************************)
(* ParseGraphOutput (parser.go) and SpecGraph: Log and LogGraph on the     *)
(* record of one commit, written by git with the shared format.            *)
(***************************************************************************)
\* The bytes findGraphEnd takes for graph drawing.
GraphBytes == {"*", "|", "/", "\\", "_", " "}

\* findGraphEnd: the number of leading graph bytes of the line.
findGraphEnd(line) == Span(line, GraphBytes)

\* The flush closure of ParseGraphOutput: the entries the buffered commit text
\* adds, none when the buffer is empty or the text is not a commit.
flush(commitBuf, graphBuf) ==
    IF Len(commitBuf) = 0 THEN <<>>
    ELSE LET c == parseCommitEntry(TrimSpace(commitBuf))
         IN  IF c.ok THEN <<[Graph |-> graphBuf, Commit |-> c]>> ELSE <<>>

\* The loop of ParseGraphOutput over the lines, and the final flush.
RECURSIVE GraphLoop(_, _, _)
GraphLoop(lines, commitBuf, graphBuf) ==
    IF lines = <<>> THEN flush(commitBuf, graphBuf)
    ELSE LET line == Head(lines)
             graphEnd == findGraphEnd(line)
             graph == SubSeq(line, 1, graphEnd)
             content == SubSeq(line, graphEnd + 1, Len(line))
         IN  IF line = <<>> THEN GraphLoop(Tail(lines), commitBuf, graphBuf)
             ELSE IF IndexByte(content, NUL) > 0
             THEN flush(commitBuf, graphBuf) \o GraphLoop(Tail(lines), content, graph)
             ELSE IF Len(commitBuf) > 0
             THEN GraphLoop(Tail(lines), commitBuf \o content, graphBuf)
             ELSE <<[Graph |-> graph \o content, Commit |-> NoCommit]>>
                    \o GraphLoop(Tail(lines), commitBuf, graphBuf)

\* ParseGraphOutput.
ParseGraphOutput(out) ==
    IF Len(out) = 0 THEN <<>> ELSE GraphLoop(Split(out, <<LF>>), <<>>, <<>>)

\* What git log --graph draws before a commit's line.
GraphPrefixes == {<<"*", " ">>, <<"|", " ", "*", " ">>, <<"*", " ", "|", " ">>}

\* %P of a root commit, a plain commit and a merge.
ParentLists == {<<>>, <<"p">>, <<"p", " ", "q">>}

\* The names %D lists.
GraphRefTokens ==
    { <<"H", "E", "A", "D">>, HeadArrow \o <<"m">>, TagColon \o <<"v">>,
      <<"o", "/", "m">>, <<"m">> }

\* The ten fields of a commit whose message is its subject line.
RecordFields(i, parents, tokens) ==
    << <<"h", Dig(i)>>, <<Dig(i)>>, <<"a">>, <<"e">>, <<"1", Dig(i)>>, <<"r">>,
       <<"s", Dig(i)>>, <<>>, parents, Decoration(tokens) >>

\* git log --format=<logFormat><logSeparator> writes the fields, the separator
\* and a newline; with --graph the line begins with the graph drawing.
SpecGraphInit ==
    /\ CacheInit /\ NoFsInit /\ FsInit /\ ShortInit /\ ParseInit
    /\ \E i \in 1..MaxBatch, parents \in ParentLists, prefix \in GraphPrefixes, n \in 0..MaxRefs :
         \E tokens \in [1..n -> GraphRefTokens] :
            input = [fn |-> "Log", tokens |-> RecordFields(i, parents, tokens),
                     raw |-> prefix]
    /\ output = NoOutput

LogStdout == Join(input.tokens, NUL) \o <<SOH, LF>>

LogGraphStdout == input.raw \o Join(input.tokens, NUL) \o <<SOH, LF>>

Calls == {"Log", "LogGraph"}

GraphFrame ==
    UNCHANGED <<input, cacheVars, hist, concVars, semVars, watchVars, parseVars,
                shortVars, capVars, timeVars, cliVars, fsVars>>

\* The result of op is added to what has been returned so far.
Returned(op, val) ==
    LET got == [o \in DOMAIN output.val \cup {op} |->
                   IF o = op THEN val ELSE output.val[o]]
    IN  [done |-> DOMAIN got = Calls, val |-> got]

\* CLIService.Log on the commit.
PairLog ==
    /\ input.fn = "Log"
    /\ "Log" \notin DOMAIN output.val
    /\ output' = Returned("Log", ParseLogOutput(LogStdout))
    /\ GraphFrame

\* CLIService.LogGraph on the commit.
PairLogGraph ==
    /\ input.fn = "Log"
    /\ "LogGraph" \notin DOMAIN output.val
    /\ output' = Returned("LogGraph", ParseGraphOutput(LogGraphStdout))
    /\ GraphFrame

GraphNext ==
    \/ PairLog
    \/ PairLogGraph

SpecGraph == SpecGraphInit /\ [][GraphNext]_vars

\* C38 as claimed: for the record of one commit, Log returns one Commit,
\* LogGraph one entry whose Commit has the same value in every field, parents
\* and refs included, and whose Graph is the graph drawing.
C38_GraphCommitEqualsLogCommit ==
    output.done =>
        /\ Len(output.val["Log"]) = 1
        /\ Len(output.val["LogGraph"]) = 1
        /\ output.val["LogGraph"][1].Graph = input.raw
        /\ output.val["LogGraph"][1].Commit = output.val["Log"][1]

(***************************************************************************)
(* SpecHead: CLIService.Head invocation by invocation, with the wait for   *)
(* a slot and the end of the process as steps of their own, while other    *)
(* callers of runGit take and free slots of the same semaphore.            *)
(***************************************************************************)
\* What git writes for a branch name or a short hash.
HeadStdouts == {<<"m", LF>>, <<"h", "1", LF>>}

HeadFrame ==
    UNCHANGED <<rpc, rcls, rres, cacheVars, hist, concVars, watchVars, parseVars,
                shortVars, capVars, timeVars, fsVars, fnVars>>

\* Where Head goes after an invocation: to the wait of its next invocation,
\* or to its return.
AfterRun(rs) == IF NeedsRun("Head", rs) THEN "acquire" ELSE "return"

\* The record of an invocation that ended.
HeadInvocation(args, cause, stdout, stderr) ==
    LET r == runGit(args, cause, stdout, stderr)
    IN  [args |-> args, cause |-> cause, stdout |-> stdout, stderr |-> stderr,
         out |-> r.out, err |-> r.err, env |-> ExtraEnv("run"),
         timeout |-> TimeoutArg("run")]

\* Head is called: s.run("symbolic-ref", "--short", "HEAD") begins its wait.
HeadCall ==
    /\ call = NoCall
    /\ call' = [op |-> "Head", rs |-> <<>>, stage |-> "acquire", held |-> 0]
    /\ ret' = NoRet
    /\ UNCHANGED gitSemaphore
    /\ HeadFrame

\* runGit: acquireGitSemaphore gets a slot.
HeadAcquire ==
    /\ call # NoCall /\ call.stage = "acquire"
    /\ CanAcquire(gitSemaphore)
    /\ gitSemaphore' = gitSemaphore + 1
    /\ call' = [call EXCEPT !.stage = "running", !.held = @ + 1]
    /\ UNCHANGED ret
    /\ HeadFrame

\* runGit: the wait ends at the deadline; no slot was taken.
HeadAcquireTimeout ==
    /\ call # NoCall /\ call.stage = "acquire"
    /\ LET rs == Append(call.rs, HeadInvocation(NextArgs("Head", call.rs),
                                                "semtimeout", <<>>, <<>>))
       IN  call' = [call EXCEPT !.rs = rs, !.stage = AfterRun(rs)]
    /\ UNCHANGED <<gitSemaphore, ret>>
    /\ HeadFrame

\* A runGit whose slot stays taken when it returns.
HeadRunEnd_keepsSlot(cause, stdout, stderr) ==
    /\ call # NoCall /\ call.stage = "running"
    /\ cause # "semtimeout"
    /\ LET rs == Append(call.rs, HeadInvocation(NextArgs("Head", call.rs),
                                                cause, stdout, stderr))
       IN  call' = [call EXCEPT !.rs = rs, !.stage = AfterRun(rs)]
    /\ UNCHANGED <<gitSemaphore, ret>>
    /\ HeadFrame

\* runGit: cmd.Run returns and the deferred releaseGitSemaphore frees the slot.
HeadRunEnd(cause, stdout, stderr) ==
    /\ call # NoCall /\ call.stage = "running"
    /\ cause # "semtimeout"
    /\ gitSemaphore' = SemAfterReturn(gitSemaphore, "ok")
    /\ LET rs == Append(call.rs, HeadInvocation(NextArgs("Head", call.rs),
                                                cause, stdout, stderr))
       IN  call' = [call EXCEPT !.rs = rs, !.stage = AfterRun(rs), !.held = @ - 1]
    /\ UNCHANGED ret
    /\ HeadFrame

\* Head returns.
HeadReturn ==
    /\ call # NoCall /\ call.stage = "return"
    /\ LET res == MethodResult("Head", call.rs)
       IN  ret' = [done |-> TRUE, op |-> "Head", val |-> res.val, err |-> res.err,
                   rs |-> call.rs]
    /\ call' = NoCall
    /\ UNCHANGED gitSemaphore
    /\ HeadFrame

HeadNext ==
    \/ HeadCall
    \/ HeadAcquire
    \/ HeadAcquireTimeout
    \/ \E cause \in Causes, so \in HeadStdouts, se \in Stderrs : HeadRunEnd(cause, so, se)
    \/ HeadReturn
    \/ LiveOtherStart
    \/ LiveOtherEnd

SpecHead == Init /\ [][HeadNext]_vars

\* The slots the other callers hold.
Others == Cardinality({q \in Callers : rpc[q] = "running"})

\* What git wrote without its final newline.
Chomp(stdout) == SubSeq(stdout, 1, Len(stdout) - 1)

HeadReturned == ret.done /\ ret.op = "Head"

\* C39: Head returns the branch name symbolic-ref wrote when that invocation
\* succeeded, and then makes no other invocation; else the hash rev-parse wrote
\* when that one succeeded; an error, and no value, when both failed.  The
\* invocations are made one after the other: Head holds at most one slot, none
\* while it waits for one and none when it returns, and every slot taken is
\* held by Head or by another caller.
C39_HeadFallback ==
    /\ HeadReturned =>
          LET first == ret.rs[1] IN
          /\ first.args = Argv(<<"symbolic-ref", "--short", "HEAD">>)
          /\ first.cause = "ok" =>
                /\ Len(ret.rs) = 1
                /\ ret.err = NilError /\ ret.val = Chomp(first.stdout)
          /\ first.cause # "ok" =>
                /\ Len(ret.rs) = 2
                /\ ret.rs[2].args = Argv(<<"rev-parse", "--short", "HEAD">>)
                /\ ret.rs[2].cause = "ok" =>
                      ret.err = NilError /\ ret.val = Chomp(ret.rs[2].stdout)
                /\ ret.rs[2].cause # "ok" =>
                      ret.err # NilError /\ ret.val = <<>>
    /\ call # NoCall =>
          /\ call.held <= 1
          /\ call.stage # "running" => call.held = 0
    /\ gitSemaphore = Others + (IF call = NoCall THEN 0 ELSE call.held)

\* Head on a detached HEAD returned the hash: symbolic-ref exited non-zero,
\* rev-parse succeeded after waiting with all four slots taken by others.
C39_Witness ==
    /\ HeadReturned
    /\ Len(ret.rs) = 2
    /\ ret.rs[1].cause = "exit" /\ ret.rs[2].cause = "ok"
    /\ ret.err = NilError /\ ret.val = <<"h", "1">>
    /\ Others = semCapacity

(***************************************************************************)
(* SpecKeys: one caller making every kind of call of the CachedService,    *)
(* the twelve cached reads among them, at one instant of the clock (the    *)
(* keys of the map do not depend on the time).                             *)
(***************************************************************************)
KeysFrame ==
    UNCHANGED <<now, repo, hist, concVars, semVars, watchVars, parseVars, shortVars,
                capVars, timeVars, cliVars, fsVars, fnVars>>

\* What the inner Service returns for the read behind key k: its value, or an
\* error for the operations that can fail.
KeysInnerRead(k) == {r \in InnerRead(k) : r.err \in {NoErr} \cup ConcErrs}

\* A cached read method: get(key); on a miss the inner call and set(key, ...).
KeysRead(k) ==
    /\ LET g == get(cache, k, now) IN
       IF g.ok THEN cache' = cache
       ELSE \E r \in KeysInnerRead(k) : cache' = set(cache, k, r.val, r.err, now)
    /\ KeysFrame

\* A write method: return c.invalidateAndReturn(c.inner.X(...)).
KeysWrite(err) ==
    /\ cache' = invalidateAndReturn(cache, err)
    /\ KeysFrame

\* A delegating method: return c.inner.X(...).
KeysPass(op, args) ==
    /\ \E r \in InnerPass(op, args) : cache' = PassCache(cache, op, r, now)
    /\ KeysFrame

KeysNext ==
    \/ \E i \in 1..Len(AllKeys) : KeysRead(AllKeys[i])
    \/ \E err \in {NoErr} \cup ConcErrs : KeysWrite(err)
    \/ \E op \in PassOps : \E args \in ArgsOf(op) : KeysPass(op, args)

SpecKeys == Init /\ [][KeysNext]_vars

\* The twelve operation identifiers.
OperationIds ==
    {"head", "isclean", "ismerging", "isrebasing", "aheadbehind", "upstream",
     "status", "branches", "stashlist", "remotes", "worktrees", "conflicts"}

\* C40: the keys of the entry map are among the twelve operation identifiers,
\* so the map holds at most twelve entries, fewer than maxCacheEntries, and no
\* set finds it at the cap.
C40_KeysFixed ==
    /\ DOMAIN cache \subseteq OperationIds
    /\ Cardinality(DOMAIN cache) <= 12
    /\ Cardinality(DOMAIN cache) < maxCacheEntries

\* Every cached read has stored its entry, some of them an error.
C40_Witness ==
    /\ DOMAIN cache = OperationIds
    /\ \E k \in DOMAIN cache : cache[k].err # NoErr

====
